---- MODULE Spec2Model ----
(***************************************************************************)
(* A model of mediaserver-sync: the filesystem-object tree with Scan and   *)
(* Clean, the Registry listing, the download/delete HTTP handler, and the  *)
(* checksum cache of the monitor variant of package fs.                    *)
(*                                                                         *)
(* Strings are sequences of one-character strings.  A cleaned rooted path  *)
(* such as "/d/a/b" is represented by the sequence of its elements.        *)
(***************************************************************************)
EXTENDS Naturals, Integers, Sequences, FiniteSets, TLC

VARIABLES
    disk,       \* the directory tree below the disk root: relative path -> kind
    envSteps,   \* number of changes the environment has made to the disk
    tree,       \* the root FilesystemObject the Registry holds (with its Children)
    out,        \* what the last operation of the program returned and did
    arg,        \* input of the pure path functions
    ret,        \* their result
    meta,       \* size, modification time and content of the regular files
    cache,      \* the process-wide FileCache: path -> FilesystemObject
    mon,        \* the monitor's root FilesystemObject (nil before NewMonitor succeeds)
    mout,       \* what the last operation of the monitor variant returned and did
    loop,       \* each monitor's Monitor goroutine: where it is, and its last Clean's error
    stopper,    \* each monitor's caller of StopMonitor: where it is, and its calls so far
    ticker,     \* each monitor's time.Ticker: ticks buffered in C, and whether stopped
    lock,       \* the holder of the process-wide cache mutex
    handler,    \* each request goroutine of the server: the call it is in
    heap        \* the FilesystemObjects the goroutines share, with their mutexes

vars == <<disk, envSteps, tree, out, arg, ret, meta, cache, mon, mout,
          loop, stopper, ticker, lock, handler, heap>>
diskVars == <<disk, envSteps>>
regVars == <<tree, out>>
pureVars == <<arg, ret>>
cacheVars == <<meta, cache, mon, mout>>
loopVars == <<loop, stopper, ticker, lock>>
goVars == <<handler, heap>>

(***************************************************************************)
(* Bounds                                                                  *)
(***************************************************************************)
MaxLen == 5         \* longest request path given to containsDotDot
MaxDepth == 2       \* deepest entry below the disk root
MaxEnv == 3         \* changes the environment makes to the disk
MaxSegs == 2        \* elements after the serve prefix in a request path
MaxOps == 1         \* cache entries one Clean or one UpdateCache call touches
MaxStops == 2       \* StopMonitor calls made on one monitor
MaxRoots == 2       \* file paths in the configuration main reads
MaxGo == 2          \* goroutines that call Scan or Clean on the root at once

(***************************************************************************)
(* Strings                                                                 *)
(***************************************************************************)
Alphabet == {"/", "\\", ".", "a"}

RECURSIVE StringsUpTo(_)
StringsUpTo(n) ==
    IF n = 0 THEN {<<>>}
    ELSE LET shorter == StringsUpTo(n - 1)
         IN  shorter \cup {Append(s, c) : s \in {x \in shorter : Len(x) = n - 1}, c \in Alphabet}

\* strings.Contains(p, sub)
Contains(p, sub) ==
    \E i \in 1..(Len(p) - Len(sub) + 1) : SubSeq(p, i, i + Len(sub) - 1) = sub

\* strings.HasPrefix / strings.TrimPrefix
HasPrefix(s, pre) == Len(s) >= Len(pre) /\ SubSeq(s, 1, Len(pre)) = pre
TrimPrefix(s, pre) == IF HasPrefix(s, pre) THEN SubSeq(s, Len(pre) + 1, Len(s)) ELSE s

\* strings.HasSuffix
HasSuffix(s, suf) == Len(s) >= Len(suf) /\ SubSeq(s, Len(s) - Len(suf) + 1, Len(s)) = suf

\* The pieces of s between the characters of seps, the empty ones included.
RECURSIVE Split(_, _)
Split(s, seps) ==
    IF \A i \in 1..Len(s) : s[i] \notin seps THEN <<s>>
    ELSE LET i == CHOOSE k \in 1..Len(s) : s[k] \in seps /\ \A j \in 1..(k - 1) : s[j] \notin seps
         IN  <<SubSeq(s, 1, i - 1)>> \o Split(SubSeq(s, i + 1, Len(s)), seps)

NonEmpty(x) == x # <<>>

\* strings.FieldsFunc(s, f): the maximal runs of characters not satisfying f.
FieldsFunc(s, seps) == SelectSeq(Split(s, seps), NonEmpty)

isSlashRune == {"/", "\\"}

DotDot == <<".", ".">>

\* A plausible slip: the raw substring test alone.
containsDotDotRaw(p) == Contains(p, DotDot)

containsDotDot(p) ==
    IF ~Contains(p, DotDot) THEN FALSE
    ELSE LET ents == FieldsFunc(p, isSlashRune)
         IN  \E i \in 1..Len(ents) : ents[i] = DotDot

(***************************************************************************)
(* The pure path functions, applied to every string up to MaxLen.          *)
(***************************************************************************)
Unset == [set |-> FALSE, val |-> FALSE]

PureInit ==
    /\ arg \in StringsUpTo(MaxLen)
    /\ ret = Unset

CheckDotDot ==
    /\ ~ret.set
    /\ ret' = [set |-> TRUE, val |-> containsDotDot(arg)]
    /\ UNCHANGED arg

(***************************************************************************)
(* The disk.  The host's "/" is a directory that holds only the disk root  *)
(* "/d"; below it the environment creates and removes entries.             *)
(*   dir         a directory                                               *)
(*   file        a readable regular file                                   *)
(*   fifo        a non-directory that is not a regular file                *)
(*   unreadable  a regular file that os.Open refuses (EACCES)              *)
(*   denied      a symbolic link into a directory that may not be          *)
(*               searched: listed, but os.Stat says EACCES                 *)
(*   dangling    a symbolic link to nothing: listed, but os.Stat says      *)
(*               ENOENT                                                    *)
(*   immutable   a readable regular file that may not be unlinked (EPERM), *)
(*               met by the download handler only                          *)
(***************************************************************************)
NameOrder == << <<"a">>, <<"b">> >>     \* ioutil.ReadDir sorts by file name
Names == {NameOrder[i] : i \in 1..Len(NameOrder)}
\* The names the listing's dot-file and backup-file tests tell apart.
ListNameOrder == << <<".", "a">>, <<"a">>, <<"a", "~">> >>
ListNames == {ListNameOrder[i] : i \in 1..Len(ListNameOrder)}
\* Every name an entry has in some specification, as ReadDir sorts them.
EntryOrder == << <<".", "a">>, <<"a">>, <<"a", "~">>, <<"b">> >>
EntryNames == {EntryOrder[i] : i \in 1..Len(EntryOrder)}
Kinds == {"dir", "file", "fifo", "unreadable", "denied", "dangling"}
DownloadKinds == Kinds \cup {"immutable"}
None == "none"

RECURSIVE PathsUpTo(_)
PathsUpTo(n) ==
    IF n = 0 THEN {<<>>}
    ELSE LET shorter == PathsUpTo(n - 1)
         IN  shorter \cup {Append(q, nm) : q \in {x \in shorter : Len(x) = n - 1}, nm \in Names}

RelPaths == PathsUpTo(MaxDepth)

RECURSIVE ListPathsUpTo(_)
ListPathsUpTo(n) ==
    IF n = 0 THEN {<<>>}
    ELSE LET shorter == ListPathsUpTo(n - 1)
         IN  shorter \cup {Append(q, nm) : q \in {x \in shorter : Len(x) = n - 1},
                                           nm \in ListNames}

ListPaths == ListPathsUpTo(MaxDepth)

DiskRoot == << <<"d">> >>               \* disk_path "/d"
ServePath == <<"/", "s", "/">>          \* serve_path "/s/"
NoPath == << <<>> >>                    \* the Path "" of a zero FilesystemObject

Parent(q) == SubSeq(q, 1, Len(q) - 1)
UnderRoot(path) == Len(path) >= 1 /\ path[1] = DiskRoot[1]
Rel(path) == SubSeq(path, 2, Len(path))
KindRel(d, q) == IF q \in DOMAIN d THEN d[q] ELSE None
HasEntries(d, q) == \E nm \in EntryNames : KindRel(d, Append(q, nm)) # None

\* Body applied to the value v: what the code keeps in a local variable.
With(v, Body(_)) == Body(v)

Errno(k) ==
    CASE k \in {None, "dangling"} -> "ENOENT"
      [] k = "denied" -> "EACCES"
      [] k = "dir" -> "nil"
      [] OTHER -> "ENOTDIR"

\* os.Stat(path): [err, kind]
Stat(d, path) ==
    IF path = <<>> THEN [err |-> "nil", kind |-> "dir"]
    ELSE IF ~UnderRoot(path) THEN [err |-> "ENOENT", kind |-> None]
    ELSE LET q == Rel(path)
             bad == {i \in 0..(Len(q) - 1) : KindRel(d, SubSeq(q, 1, i)) # "dir"}
         IN  IF bad # {}
             THEN LET i == CHOOSE k \in bad : \A j \in bad : k <= j
                  IN  [err |-> Errno(KindRel(d, SubSeq(q, 1, i))), kind |-> None]
             ELSE LET k == KindRel(d, q)
                  IN  IF k \in {None, "dangling", "denied"}
                      THEN [err |-> Errno(k), kind |-> None]
                      ELSE [err |-> "nil", kind |-> k]

os_IsPermission(e) == e = "EACCES"
os_IsNotExist(e) == e = "ENOENT"

\* ioutil.ReadDir(path): [err, files], the names sorted
ReadDir(d, path) ==
    With(Stat(d, path), LAMBDA st :
        IF st.err # "nil" THEN [err |-> st.err, files |-> <<>>]
        ELSE IF st.kind # "dir" THEN [err |-> "ENOTDIR", files |-> <<>>]
        ELSE [err |-> "nil",
              files |-> SelectSeq(EntryOrder,
                                  LAMBDA nm : KindRel(d, Append(Rel(path), nm)) # None)])

\* os.Remove(path): [err, disk]
os_Remove(d, path) ==
    With(Stat(d, path), LAMBDA st :
        IF ~UnderRoot(path) \/ (st.err # "nil" /\ KindRel(d, Rel(path)) = None)
        THEN [err |-> IF st.err = "nil" THEN "EBUSY" ELSE st.err, disk |-> d]
        ELSE IF HasEntries(d, Rel(path)) THEN [err |-> "ENOTEMPTY", disk |-> d]
        ELSE IF KindRel(d, Rel(path)) = "immutable" THEN [err |-> "EPERM", disk |-> d]
        ELSE [err |-> "nil", disk |-> [d EXCEPT ![Rel(path)] = None]])

(***************************************************************************)
(* FilesystemObject                                                        *)
(***************************************************************************)
ErrIsNotDir == "ErrIsNotDir"
ErrDirNotEmpty == "ErrDirNotEmpty"

\* &FilesystemObject{}: Mode 0 is a regular mode, and the logger is nil
ZeroFSO ==
    [Path |-> NoPath, IsDir |-> FALSE, Regular |-> TRUE, Root |-> FALSE,
     Children |-> <<>>, logger |-> FALSE]

\* DetectContentType: opens the file and reads its first 512 bytes
DetectContentType(kind) == IF kind = "unreadable" THEN "EACCES" ELSE "nil"

NewFSObj(path, kind, root) ==
    LET fso == [Path |-> path, IsDir |-> kind = "dir",
                Regular |-> kind \in {"file", "unreadable", "immutable"}, Root |-> root,
                Children |-> <<>>, logger |-> TRUE]
    IN  IF ~fso.IsDir /\ fso.Regular /\ DetectContentType(kind) # "nil"
        THEN [err |-> DetectContentType(kind), fso |-> ZeroFSO]
        ELSE [err |-> "nil", fso |-> fso]

ObjFromPath(d, path, root) ==
    With(Stat(d, path), LAMBDA st :
        IF st.err # "nil" THEN [err |-> st.err, fso |-> ZeroFSO]
        ELSE NewFSObj(path, st.kind, root))

RECURSIVE Scan(_, _)
RECURSIVE ScanEntries(_, _, _, _)

\* A plausible slip: a permission error aborts the scan like any other.
ScanEntriesStrict(d, fso, files, i) ==
    IF i > Len(files) THEN [err |-> "nil", fso |-> fso]
    ELSE With(ObjFromPath(d, Append(fso.Path, files[i]), FALSE), LAMBDA r :
             IF r.err # "nil"
             THEN [err |-> r.err, fso |-> fso]
             ELSE IF r.fso.IsDir
             THEN With(Scan(d, r.fso), LAMBDA s :
                      LET withChild == [fso EXCEPT !.Children = Append(@, s.fso)]
                      IN  IF s.err # "nil"
                          THEN [err |-> s.err, fso |-> withChild]
                          ELSE ScanEntries(d, withChild, files, i + 1))
             ELSE ScanEntries(d, [fso EXCEPT !.Children = Append(@, r.fso)], files, i + 1))

\* The loop of Scan over the directory's entries, from entry i on.
ScanEntries(d, fso, files, i) ==
    IF i > Len(files) THEN [err |-> "nil", fso |-> fso]
    ELSE With(ObjFromPath(d, Append(fso.Path, files[i]), FALSE), LAMBDA r :
             IF r.err # "nil"
             THEN IF os_IsPermission(r.err)
                  THEN ScanEntries(d, fso, files, i + 1)
                  ELSE [err |-> r.err, fso |-> fso]
             ELSE IF r.fso.IsDir
             THEN With(Scan(d, r.fso), LAMBDA s :
                      LET withChild == [fso EXCEPT !.Children = Append(@, s.fso)]
                      IN  IF s.err # "nil"
                          THEN [err |-> s.err, fso |-> withChild]
                          ELSE ScanEntries(d, withChild, files, i + 1))
             ELSE ScanEntries(d, [fso EXCEPT !.Children = Append(@, r.fso)], files, i + 1))

\* FilesystemObject.Scan: [err, fso]
Scan(d, fso) ==
    IF ~fso.IsDir THEN [err |-> ErrIsNotDir, fso |-> fso]
    ELSE With(ReadDir(d, fso.Path), LAMBDA rd :
             LET cleared == [fso EXCEPT !.Children = <<>>]
             IN  IF rd.err # "nil" THEN [err |-> rd.err, fso |-> cleared]
                 ELSE ScanEntries(d, cleared, rd.files, 1))


\* A plausible slip: os.RemoveAll where os.Remove is meant.
DeleteAll(d, fso) ==
    [err |-> "nil",
     disk |-> [q \in RelPaths |->
                  IF HasPrefix(q, Rel(fso.Path)) /\ UnderRoot(fso.Path) THEN None ELSE d[q]]]

\* FilesystemObject.Delete: [err, disk]
Delete(d, fso) == os_Remove(d, fso.Path)

\* A plausible slip: the emptiness test never lets a directory be deleted.
CleanFinishKeepsEmpty(d, fso, removed) ==
    [err |-> ErrDirNotEmpty, fso |-> fso, disk |-> d, removed |-> removed]

\* Clean's last steps for a node that is not the root: not empty, or delete.
CleanFinishNotRoot(d, fso, removed) ==
    IF Len(fso.Children) > 0
    THEN [err |-> ErrDirNotEmpty, fso |-> fso, disk |-> d, removed |-> removed]
    ELSE With(Delete(d, fso), LAMBDA del :
             [err |-> del.err, fso |-> fso, disk |-> del.disk,
              removed |-> IF del.err = "nil" THEN removed \cup {fso.Path} ELSE removed])

\* A plausible slip: the root test left out.
CleanFinishNoRootTest(d, fso, removed) == CleanFinishNotRoot(d, fso, removed)

\* Clean after fso.Children = newChildren: the root returns, any other node
\* is kept or deleted.
CleanFinish(d, fso, removed) ==
    IF fso.Root THEN [err |-> "nil", fso |-> fso, disk |-> d, removed |-> removed]
    ELSE CleanFinishNotRoot(d, fso, removed)

RECURSIVE Clean(_, _)
RECURSIVE CleanChildren(_, _, _, _, _)

\* A plausible slip: a child whose directory was deleted stays in the list.
CleanChildrenKeepsDeleted(d, fso, newChildren, removed, i) ==
    IF i > Len(fso.Children)
    THEN CleanFinish(d, [fso EXCEPT !.Children = newChildren], removed)
    ELSE LET f == fso.Children[i]
         IN  IF ~f.IsDir
             THEN CleanChildren(d, fso, Append(newChildren, f), removed, i + 1)
             ELSE With(Clean(d, f), LAMBDA c :
                      LET cleaned == [fso EXCEPT !.Children[i] = c.fso]
                      IN  IF c.err \in {"nil", ErrDirNotEmpty}
                          THEN CleanChildren(c.disk, cleaned, Append(newChildren, c.fso),
                                             removed \cup c.removed, i + 1)
                          ELSE [err |-> c.err, fso |-> cleaned, disk |-> c.disk,
                                removed |-> removed \cup c.removed])

\* The loop of Clean over fso.Children, from child i on.  fso.Children is the
\* list being ranged over (its nodes are cleaned in place); newChildren is
\* assigned to it only after the loop.
CleanChildren(d, fso, newChildren, removed, i) ==
    IF i > Len(fso.Children)
    THEN CleanFinish(d, [fso EXCEPT !.Children = newChildren], removed)
    ELSE LET f == fso.Children[i]
         IN  IF ~f.IsDir
             THEN CleanChildren(d, fso, Append(newChildren, f), removed, i + 1)
             ELSE With(Clean(d, f), LAMBDA c :
                      LET cleaned == [fso EXCEPT !.Children[i] = c.fso]
                      IN  IF c.err = "nil"
                          THEN CleanChildren(c.disk, cleaned, newChildren,
                                             removed \cup c.removed, i + 1)
                          ELSE IF c.err = ErrDirNotEmpty
                          THEN CleanChildren(c.disk, cleaned, Append(newChildren, c.fso),
                                             removed \cup c.removed, i + 1)
                          ELSE [err |-> c.err, fso |-> cleaned, disk |-> c.disk,
                                removed |-> removed \cup c.removed])

\* FilesystemObject.Clean: [err, fso, disk, removed], removed being the paths
\* this pass took off the disk.
Clean(d, fso) ==
    IF ~fso.IsDir THEN [err |-> ErrIsNotDir, fso |-> fso, disk |-> d, removed |-> {}]
    ELSE IF fso.Root
    THEN With(Scan(d, fso), LAMBDA s :
             IF s.err # "nil"
             THEN [err |-> s.err, fso |-> s.fso, disk |-> d, removed |-> {}]
             ELSE CleanChildren(d, s.fso, <<>>, {}, 1))
    ELSE CleanChildren(d, fso, <<>>, {}, 1)

\* The string of a cleaned rooted path: "/" and the elements joined by "/".
RECURSIVE PathString(_)
PathString(path) ==
    IF path = <<>> THEN <<"/">>
    ELSE IF Len(path) = 1 THEN <<"/">> \o path[1]
    ELSE PathString(Parent(path)) \o <<"/">> \o path[Len(path)]

\* path.Base(s): the last element of s, trailing slashes dropped; "." for
\* the empty string and "/" for a string of slashes.
path_Base(s) ==
    IF s = <<>> THEN <<".">>
    ELSE With(FieldsFunc(s, {"/"}), LAMBDA elems :
             IF elems = <<>> THEN <<"/">> ELSE elems[Len(elems)])

\* The file is one GetAllFiles lists: regular, its base name not starting
\* with a dot, its path not ending with "~".
Listable(f) ==
    /\ ~f.IsDir
    /\ f.Regular
    /\ ~HasPrefix(path_Base(PathString(f.Path)), <<".">>)
    /\ ~HasSuffix(PathString(f.Path), <<"~">>)

RECURSIVE GetAllFiles(_)
RECURSIVE GetAllFilesFrom(_, _)

\* A plausible slip: the dot test made on the whole path, not on its base.
GetAllFilesFromDotAnywhere(children, i) ==
    IF i > Len(children) THEN <<>>
    ELSE LET f == children[i]
         IN  (IF f.IsDir
              THEN SelectSeq(GetAllFiles(f),
                             LAMBDA g : ~Contains(PathString(g.Path), <<"/", ".">>))
              ELSE IF Listable(f) THEN <<f>> ELSE <<>>)
             \o GetAllFilesFrom(children, i + 1)

\* FilesystemObject.GetAllFiles: the loop over fso.Children, from child i on.
GetAllFilesFrom(children, i) ==
    IF i > Len(children) THEN <<>>
    ELSE LET f == children[i]
         IN  (IF f.IsDir THEN GetAllFiles(f)
              ELSE IF Listable(f) THEN <<f>> ELSE <<>>) \o GetAllFilesFrom(children, i + 1)
GetAllFiles(fso) == GetAllFilesFrom(fso.Children, 1)

(***************************************************************************)
(* Path strings                                                            *)
(***************************************************************************)
\* path.Clean of a rooted path, element by element: "" and "." are dropped
\* and ".." drops the element before it (none at the root).
RECURSIVE CleanElems(_, _, _)
CleanElems(segs, i, acc) ==
    IF i > Len(segs) THEN acc
    ELSE IF segs[i] \in {<<>>, <<".">>} THEN CleanElems(segs, i + 1, acc)
    ELSE IF segs[i] = DotDot
    THEN CleanElems(segs, i + 1, IF acc = <<>> THEN acc ELSE Parent(acc))
    ELSE CleanElems(segs, i + 1, Append(acc, segs[i]))

\* path.Join(root, rest) for a rooted root: the elements of the cleaned path.
path_Join(root, rest) ==
    CleanElems(Split(IF rest = <<>> THEN root ELSE root \o <<"/">> \o rest, {"/"}), 1, <<>>)

\* strings.TrimRight(s, "/")
RECURSIVE TrimRightSlash(_)
TrimRightSlash(s) ==
    IF s # <<>> /\ s[Len(s)] = "/" THEN TrimRightSlash(Parent(s)) ELSE s

\* strings.ReplaceAll(s, old, new) for a non-empty old
RECURSIVE ReplaceAll(_, _, _)
ReplaceAll(s, old, new) ==
    IF Len(s) < Len(old) THEN s
    ELSE IF HasPrefix(s, old)
    THEN new \o ReplaceAll(SubSeq(s, Len(old) + 1, Len(s)), old, new)
    ELSE <<s[1]>> \o ReplaceAll(Tail(s), old, new)

(***************************************************************************)
(* Registry                                                                *)
(***************************************************************************)
newWebObject(webPath, diskPath, fso) ==
    [Path |-> fso.Path,
     WebPath |-> ReplaceAll(PathString(fso.Path), PathString(diskPath),
                            TrimRightSlash(webPath))]

RECURSIVE WebObjects(_, _)
WebObjects(files, i) ==
    IF i > Len(files) THEN <<>>
    ELSE <<newWebObject(ServePath, DiskRoot, files[i])>> \o WebObjects(files, i + 1)

RECURSIVE WebObjectsOf(_, _, _, _)
WebObjectsOf(p, diskPath, files, i) ==
    IF i > Len(files) THEN <<>>
    ELSE <<newWebObject(p, diskPath, files[i])>> \o WebObjectsOf(p, diskPath, files, i + 1)

\* Registry.GetAllFiles over the map pathFSO, ranged over in the given order
\* of its keys, from key i on with f gathered so far: [err, files, pathFSO,
\* disk]
RECURSIVE Registry_GetAllFilesOf(_, _, _, _, _)
Registry_GetAllFilesOf(d, pathFSO, order, i, f) ==
    IF i > Len(order) THEN [err |-> "nil", files |-> f, pathFSO |-> pathFSO, disk |-> d]
    ELSE With(Clean(d, pathFSO[order[i]]), LAMBDA c :
             IF c.err # "nil"
             THEN [err |-> c.err, files |-> f,
                   pathFSO |-> [pathFSO EXCEPT ![order[i]] = c.fso], disk |-> c.disk]
             ELSE Registry_GetAllFilesOf(
                      c.disk, [pathFSO EXCEPT ![order[i]] = c.fso], order, i + 1,
                      f \o WebObjectsOf(order[i], c.fso.Path, GetAllFiles(c.fso), 1)))

\* Registry.GetAllFiles with the one root main registers: [err, files, fso,
\* disk, removed]
Registry_GetAllFiles(d, root) ==
    With(Clean(d, root), LAMBDA c :
        [err |-> c.err,
         files |-> IF c.err # "nil" THEN <<>> ELSE WebObjects(GetAllFiles(c.fso), 1),
         fso |-> c.fso, disk |-> c.disk, removed |-> c.removed])

(***************************************************************************)
(* HTTP handlers.  An operation's events are what it did, in order:        *)
(* <<"resp", status>>, <<"stat", path>>, <<"ServeFile", path>>,            *)
(* <<"unlink", path>>, <<"panic">>.                                        *)
(***************************************************************************)
Methods == {"GET", "HEAD", "DELETE", "POST"}

Resp(code) == <<"resp", code>>

\* The last operation was a listing whose Clean succeeded, and the environment
\* has not changed the disk since.
JustCleaned == out.op = "list" /\ out.method = "GET" /\ out.err = "nil" /\ out.at = envSteps

\* serveFiles: the listing of the registry, marshalled to JSON.  json.Marshal
\* refuses a modification time whose year is beyond 9999, which a listed
\* file may have.
serveFiles(method) ==
    \E l \in {Registry_GetAllFiles(disk, tree)} :
    \E json \in (IF l.err = "nil" /\ l.files # <<>> THEN {"nil", "error"} ELSE {"nil"}) :
        /\ disk' = l.disk
        /\ tree' = l.fso
        /\ out' = [op |-> "list", method |-> method, url |-> <<>>, err |-> l.err,
                   json |-> IF l.err # "nil" THEN "none" ELSE json,
                   events |-> <<Resp(IF l.err # "nil" \/ json # "nil" THEN 500 ELSE 200)>>,
                   files |-> l.files, removed |-> l.removed,
                   at |-> envSteps, again |-> JustCleaned,
                   before |-> IF JustCleaned THEN out.removed ELSE {}]

\* A plausible slip: the listing served whatever the method.
FileInfoHandlerAnyMethod(method) == serveFiles(method)

\* FileInfoHandler.ServeHTTP
FileInfoHandler(method) ==
    IF method = "GET"
    THEN serveFiles(method)
    ELSE /\ out' = [op |-> "list", method |-> method, url |-> <<>>, err |-> "nil",
                    json |-> "none",
                    events |-> <<Resp(405)>>, files |-> <<>>, removed |-> {},
                    at |-> envSteps, again |-> FALSE, before |-> {}]
         /\ UNCHANGED <<disk, tree>>

\* deleteFile: [events, disk]
deleteFile(d, fso) ==
    IF ~fso.logger THEN [events |-> << <<"panic">> >>, disk |-> d]
    ELSE With(Delete(d, fso), LAMBDA del :
             IF del.err # "nil"
             THEN [events |-> <<Resp(500)>>, disk |-> d]
             ELSE [events |-> << <<"unlink", fso.Path>> >>, disk |-> del.disk])

\* http.ServeFile(w, r, name) as the handler calls it: the library refuses,
\* with a 400 of its own, a request whose URL path has a ".." element, and
\* otherwise answers from what name leads to.
http_ServeFile(urlPath, name) ==
    IF containsDotDot(urlPath) THEN <<Resp(400)>> ELSE << <<"ServeFile", name>> >>

\* A plausible slip: the default case missing, so that an unknown method
\* falls to the DELETE case.
ServeMethodNoDefault(d, method, urlPath, fso) ==
    IF method \in {"GET", "HEAD"}
    THEN [events |-> http_ServeFile(urlPath, fso.Path), disk |-> d]
    ELSE deleteFile(d, fso)

\* The method switch of DownloadHandler.ServeHTTP: [events, disk]
ServeMethod(d, method, urlPath, fso) ==
    CASE method \in {"GET", "HEAD"} ->
            [events |-> http_ServeFile(urlPath, fso.Path), disk |-> d]
      [] method = "DELETE" -> deleteFile(d, fso)
      [] OTHER -> [events |-> <<Resp(405)>>, disk |-> d]

\* DownloadHandler.ServeHTTP: [events, disk]
DownloadHandler(d, method, urlPath) ==
    With(path_Join(PathString(DiskRoot), TrimPrefix(urlPath, ServePath)), LAMBDA diskPath :
    With(ObjFromPath(d, diskPath, FALSE), LAMBDA r :
        LET traversal == IF containsDotDot(urlPath) THEN <<Resp(400)>> ELSE <<>>
            statted == traversal \o << <<"stat", diskPath>> >>
        IN  IF r.err # "nil" /\ os_IsNotExist(r.err)
            THEN [events |-> Append(statted, Resp(404)), disk |-> d]
            ELSE IF r.err # "nil" /\ os_IsPermission(r.err)
            THEN [events |-> Append(statted, Resp(403)), disk |-> d]
            ELSE LET failed == IF r.err # "nil" THEN <<Resp(500)>> ELSE <<>>
                     notFile == IF r.fso.IsDir \/ ~r.fso.Regular THEN <<Resp(400)>>
                                ELSE <<>>
                 IN  With(ServeMethod(d, method, urlPath, r.fso), LAMBDA m :
                         [events |-> statted \o failed \o notFile \o m.events,
                          disk |-> m.disk])))

(***************************************************************************)
(* Request paths: the serve prefix followed by up to MaxSegs elements,     *)
(* joined by "/".                                                          *)
(***************************************************************************)
ReqElems == Names \cup {DotDot}

RECURSIVE ReqTails(_)
ReqTails(n) ==
    IF n = 0 THEN {<<>>}
    ELSE LET shorter == ReqTails(n - 1)
         IN  shorter \cup {e : e \in ReqElems}
                     \cup {t \o <<"/">> \o e : t \in shorter \ {<<>>}, e \in ReqElems}

\* A path whose ".." is set off by a backslash: http.ServeMux, which cleans
\* and redirects the paths with a "/"-delimited "..", hands this one on.
BackslashTail == NameOrder[1] \o <<"\\">> \o DotDot

Requests == {ServePath \o t : t \in ReqTails(MaxSegs) \cup {BackslashTail}}

(***************************************************************************)
(* The monitor variant of package fs: FilesystemObjects carry a SHA-1 sum, *)
(* and a process-wide FileCache keeps the last object of every regular     *)
(* file.  The environment also rewrites files.                             *)
(***************************************************************************)
MaxVer == 2         \* sizes, modification times and contents a file can take

FileMetas == [size : 1..MaxVer, mtime : 1..MaxVer, data : 1..MaxVer]
NoFileMeta == [size |-> 0, mtime |-> 0, data |-> 0]
NewFileMeta == [size |-> 1, mtime |-> 1, data |-> 1]
NoMeta == [q \in RelPaths |-> NoFileMeta]
NoCache == [q \in {} |-> 0]
Free == <<>>                            \* the lock has no holder
NoMonitors == [q \in {} |-> 0]
NoMout == [op |-> "none", path |-> <<>>, err |-> "nil", reused |-> FALSE, summed |-> {}]

\* sha1 of the file's content
Sha1(data) == <<"sha1", data>>

\* os.FileInfo of the entry itself, as ioutil.ReadDir (Lstat) gives it
LstatInfo(d, m, path) ==
    LET k == KindRel(d, Rel(path))
    IN  [kind |-> IF k \in {"denied", "dangling"} THEN "symlink" ELSE k,
         size |-> m[Rel(path)].size, mtime |-> m[Rel(path)].mtime]

\* os.FileInfo of what the path leads to, as os.Stat gives it
StatInfo(d, m, path) ==
    [kind |-> Stat(d, path).kind,
     size |-> IF UnderRoot(path) /\ Rel(path) \in RelPaths THEN m[Rel(path)].size ELSE 0,
     mtime |-> IF UnderRoot(path) /\ Rel(path) \in RelPaths THEN m[Rel(path)].mtime ELSE 0]

ZeroFSOH ==
    [Path |-> NoPath, Hash |-> <<>>, Size |-> 0, ModTime |-> 0, IsDir |-> FALSE,
     Regular |-> TRUE, Root |-> FALSE, Children |-> <<>>]

\* GenerateSum: opens the file and hashes its content: [err, hash]
GenerateSum(d, m, path) ==
    IF KindRel(d, Rel(path)) = "unreadable" THEN [err |-> "EACCES", hash |-> <<>>]
    ELSE [err |-> "nil", hash |-> Sha1(m[Rel(path)].data)]

\* NewFSObj of the monitor variant: [err, fso, summed], summed being the
\* paths GenerateSum was called for
NewFSObjH(d, m, path, info, root) ==
    LET fso == [Path |-> path, Hash |-> <<>>, Size |-> info.size, ModTime |-> info.mtime,
                IsDir |-> info.kind = "dir",
                Regular |-> info.kind \in {"file", "unreadable"},
                Root |-> root, Children |-> <<>>]
    IN  IF ~fso.IsDir /\ fso.Regular
        THEN With(GenerateSum(d, m, path), LAMBDA sum :
                 IF sum.err # "nil"
                 THEN [err |-> sum.err, fso |-> ZeroFSOH, summed |-> {path}]
                 ELSE [err |-> "nil", fso |-> [fso EXCEPT !.Hash = sum.hash],
                       summed |-> {path}])
        ELSE [err |-> "nil", fso |-> fso, summed |-> {}]

\* A plausible slip: the modification time left out of the comparison.
IsEqualSizeOnly(fso, path, size, modTime) == fso.Path = path /\ fso.Size = size

\* FilesystemObject.IsEqual
IsEqual(fso, path, size, modTime) ==
    fso.Path = path /\ fso.Size = size /\ fso.ModTime = modTime

\* GetFromCache: [ok, fso]
GetFromCache(c, path) ==
    IF path \in DOMAIN c THEN [ok |-> TRUE, fso |-> c[path]]
    ELSE [ok |-> FALSE, fso |-> ZeroFSOH]

\* UpdateCacheFile: cache[fso.Path] = fso
UpdateCacheFile(c, fso) ==
    [q \in DOMAIN c \cup {fso.Path} |-> IF q = fso.Path THEN fso ELSE c[q]]

\* DeleteCacheFile: delete(cache, fso.Path)
DeleteCacheFile(c, fso) == [q \in DOMAIN c \ {fso.Path} |-> c[q]]

\* FSObjFromPath: [err, fso, reused, summed]
FSObjFromPath(d, m, c, path, root) ==
    With(Stat(d, path), LAMBDA st :
    With(StatInfo(d, m, path), LAMBDA info :
    With(GetFromCache(c, path), LAMBDA hit :
        IF st.err # "nil"
        THEN [err |-> st.err, fso |-> ZeroFSOH, reused |-> FALSE, summed |-> {}]
        ELSE IF hit.ok /\ IsEqual(hit.fso, path, info.size, info.mtime)
        THEN [err |-> "nil", fso |-> hit.fso, reused |-> TRUE, summed |-> {}]
        ELSE With(NewFSObjH(d, m, path, info, root), LAMBDA n :
                 [err |-> n.err, fso |-> n.fso, reused |-> FALSE, summed |-> n.summed]))))

RECURSIVE ScanH(_, _, _)
RECURSIVE ScanEntriesH(_, _, _, _, _, _)

\* The loop of the monitor variant's Scan, from entry i on.
ScanEntriesH(d, m, fso, files, i, summed) ==
    IF i > Len(files) THEN [err |-> "nil", fso |-> fso, summed |-> summed]
    ELSE With(Append(fso.Path, files[i]), LAMBDA path :
         With(NewFSObjH(d, m, path, LstatInfo(d, m, path), FALSE), LAMBDA r :
             IF r.err # "nil"
             THEN IF os_IsPermission(r.err)
                  THEN ScanEntriesH(d, m, fso, files, i + 1, summed \cup r.summed)
                  ELSE [err |-> r.err, fso |-> fso, summed |-> summed \cup r.summed]
             ELSE IF r.fso.IsDir
             THEN With(ScanH(d, m, r.fso), LAMBDA s :
                      LET withChild == [fso EXCEPT !.Children = Append(@, s.fso)]
                      IN  IF s.err # "nil"
                          THEN [err |-> s.err, fso |-> withChild,
                                summed |-> summed \cup s.summed]
                          ELSE ScanEntriesH(d, m, withChild, files, i + 1,
                                            summed \cup s.summed))
             ELSE ScanEntriesH(d, m, [fso EXCEPT !.Children = Append(@, r.fso)], files,
                               i + 1, summed \cup r.summed)))

\* FilesystemObject.Scan of the monitor variant: [err, fso, summed]
ScanH(d, m, fso) ==
    IF ~fso.IsDir THEN [err |-> ErrIsNotDir, fso |-> fso, summed |-> {}]
    ELSE With(ReadDir(d, fso.Path), LAMBDA rd :
             LET cleared == [fso EXCEPT !.Children = <<>>]
             IN  IF rd.err # "nil" THEN [err |-> rd.err, fso |-> cleared, summed |-> {}]
                 ELSE ScanEntriesH(d, m, cleared, rd.files, 1, {}))

RECURSIVE CleanTreeH(_, _)
RECURSIVE CleanChildrenH(_, _, _, _)

\* The loop of the monitor variant's Clean, from child i on: [err, fso, cache]
CleanChildrenH(c, fso, newChildren, i) ==
    IF i > Len(fso.Children)
    THEN LET done == [fso EXCEPT !.Children = newChildren]
         IN  IF done.Root THEN [err |-> "nil", fso |-> done, cache |-> c]
             ELSE IF Len(done.Children) > 0
             THEN [err |-> ErrDirNotEmpty, fso |-> done, cache |-> c]
             ELSE [err |-> "nil", fso |-> done, cache |-> DeleteCacheFile(c, done)]
    ELSE LET f == fso.Children[i]
         IN  IF ~f.IsDir
             THEN CleanChildrenH(c, fso, Append(newChildren, f), i + 1)
             ELSE With(CleanTreeH(c, f), LAMBDA r :
                      LET cleaned == [fso EXCEPT !.Children[i] = r.fso]
                      IN  IF r.err = "nil"
                          THEN CleanChildrenH(r.cache, cleaned, newChildren, i + 1)
                          ELSE IF r.err = ErrDirNotEmpty
                          THEN CleanChildrenH(r.cache, cleaned, Append(newChildren, r.fso),
                                              i + 1)
                          ELSE [err |-> r.err, fso |-> cleaned, cache |-> r.cache])

\* Clean below the root, where no Scan is made
CleanTreeH(c, fso) ==
    IF ~fso.IsDir THEN [err |-> ErrIsNotDir, fso |-> fso, cache |-> c]
    ELSE CleanChildrenH(c, fso, <<>>, 1)

\* FilesystemObject.Clean of the monitor variant: [err, fso, cache, summed]
CleanH(d, m, c, fso) ==
    IF ~fso.IsDir THEN [err |-> ErrIsNotDir, fso |-> fso, cache |-> c, summed |-> {}]
    ELSE IF fso.Root
    THEN With(ScanH(d, m, fso), LAMBDA s :
             IF s.err # "nil"
             THEN [err |-> s.err, fso |-> s.fso, cache |-> c, summed |-> s.summed]
             ELSE With(CleanChildrenH(c, s.fso, <<>>, 1), LAMBDA r :
                      [err |-> r.err, fso |-> r.fso, cache |-> r.cache,
                       summed |-> s.summed]))
    ELSE With(CleanChildrenH(c, fso, <<>>, 1), LAMBDA r :
             [err |-> r.err, fso |-> r.fso, cache |-> r.cache, summed |-> {}])

\* FilesystemObject.UpdateCache: the cache after it
RECURSIVE fso_UpdateCache(_, _)
RECURSIVE UpdateCacheFrom(_, _, _)

\* A plausible slip: the directories among the children are not descended
\* into.
UpdateCacheFromShallow(c, children, i) ==
    IF i > Len(children) THEN c
    ELSE LET f == children[i]
             c2 == IF ~f.IsDir /\ f.Regular THEN UpdateCacheFile(c, f) ELSE c
         IN  UpdateCacheFrom(c2, children, i + 1)

UpdateCacheFrom(c, children, i) ==
    IF i > Len(children) THEN c
    ELSE LET f == children[i]
             c1 == IF f.IsDir THEN fso_UpdateCache(c, f) ELSE c
             c2 == IF ~f.IsDir /\ f.Regular THEN UpdateCacheFile(c1, f) ELSE c1
         IN  UpdateCacheFrom(c2, children, i + 1)
fso_UpdateCache(c, fso) == UpdateCacheFrom(c, fso.Children, 1)

\* The paths a monitor may be asked to watch: the disk root and one entry
\* below it, which may be a directory or a file.
MonitorPaths == {DiskRoot, Append(DiskRoot, NameOrder[1])}

\* NewMonitor(path)
NewMonitor(path) ==
    \E o \in {FSObjFromPath(disk, meta, cache, path, TRUE)} :
        IF o.err # "nil"
        THEN /\ mout' = [op |-> "NewMonitor", path |-> path, err |-> o.err,
                         reused |-> FALSE, summed |-> o.summed]
             /\ UNCHANGED <<cache, mon>>
        ELSE \E c \in {CleanH(disk, meta, cache, o.fso)} :
                 IF c.err # "nil"
                 THEN /\ mout' = [op |-> "NewMonitor", path |-> path, err |-> c.err,
                                  reused |-> o.reused, summed |-> o.summed \cup c.summed]
                      /\ cache' = c.cache
                      /\ UNCHANGED mon
                 ELSE /\ mout' = [op |-> "NewMonitor", path |-> path, err |-> "nil",
                                  reused |-> o.reused, summed |-> o.summed \cup c.summed]
                      /\ cache' = fso_UpdateCache(c.cache, c.fso)
                      /\ mon' = [q \in DOMAIN mon \cup {path} |->
                                    IF q = path THEN c.fso ELSE mon[q]]

\* One tick of FileMonitor.Monitor: Clean, then UpdateCache, whatever Clean
\* returned
MonitorTick(path) ==
    \E c \in {CleanH(disk, meta, cache, mon[path])} :
        /\ mout' = [op |-> "tick", path |-> path, err |-> c.err, reused |-> FALSE,
                    summed |-> c.summed]
        /\ cache' = fso_UpdateCache(c.cache, c.fso)
        /\ mon' = [mon EXCEPT ![path] = c.fso]

(***************************************************************************)
(* Initial values of the parts a specification does not use                *)
(***************************************************************************)
NoDisk == [q \in RelPaths |-> IF q = <<>> THEN "dir" ELSE None]
NoOut == [op |-> "none", method |-> "", url |-> <<>>, err |-> "nil", json |-> "none",
          events |-> <<>>,
          files |-> <<>>, removed |-> {}, at |-> 0, again |-> FALSE, before |-> {}]

DiskInit == disk = NoDisk /\ envSteps = 0
PureIdle == arg = <<>> /\ ret = Unset
CacheIdle == meta = NoMeta /\ cache = NoCache /\ mon = NoMonitors /\ mout = NoMout
GoIdle == handler = <<>> /\ heap = <<>>
LoopIdle == loop = <<>> /\ stopper = <<>> /\ ticker = <<>> /\ lock = Free /\ GoIdle

\* Registry.Register("/s/", "/d") in main
RegInit ==
    /\ tree = ObjFromPath(NoDisk, DiskRoot, TRUE).fso
    /\ out = NoOut

(***************************************************************************)
(* The environment                                                         *)
(***************************************************************************)
CreateAt(q, k) ==
    /\ envSteps < MaxEnv
    /\ disk[q] = None
    /\ q = <<>> \/ disk[Parent(q)] = "dir"
    /\ disk' = [disk EXCEPT ![q] = k]
    /\ envSteps' = envSteps + 1

RemoveAt(q) ==
    /\ envSteps < MaxEnv
    /\ disk[q] # None
    /\ ~HasEntries(disk, q)
    /\ disk' = [disk EXCEPT ![q] = None]
    /\ envSteps' = envSteps + 1

EnvCreate == \E q \in RelPaths, k \in Kinds : CreateAt(q, k)

EnvRemove == \E q \in RelPaths : RemoveAt(q)

\* The same, with files that may not be unlinked among those created.
EnvCreateAny == \E q \in RelPaths, k \in DownloadKinds : CreateAt(q, k)

\* The same, with the files' sizes, times and contents kept.  Symbolic
\* links are left out: the monitor variant's Scan takes the entry's own
\* FileInfo, so to it a link is one more non-regular entry, like a fifo.
CacheKinds == {"dir", "file", "unreadable", "fifo"}

EnvCreateFile ==
    \E q \in RelPaths, k \in CacheKinds :
        /\ CreateAt(q, k)
        /\ meta' = [meta EXCEPT ![q] = IF k \in {"file", "unreadable"}
                                       THEN NewFileMeta ELSE NoFileMeta]

EnvRemoveFile ==
    \E q \in RelPaths :
        /\ RemoveAt(q)
        /\ meta' = [meta EXCEPT ![q] = NoFileMeta]

\* A regular file is rewritten: one of its size, modification time and
\* content changes.
EnvWrite ==
    \E q \in RelPaths, field \in {"size", "mtime", "data"} :
        /\ envSteps < MaxEnv
        /\ disk[q] \in {"file", "unreadable"}
        /\ meta[q][field] < MaxVer
        /\ meta' = [meta EXCEPT ![q][field] = @ + 1]
        /\ envSteps' = envSteps + 1
        /\ UNCHANGED disk

(***************************************************************************)
(* The program of main: one root registered, the listing handler at        *)
(* /fileinfo and the download handler at the serve prefix.                 *)
(***************************************************************************)
ListRequest ==
    \E method \in Methods :
        /\ FileInfoHandler(method)
        /\ UNCHANGED <<envSteps, pureVars, loopVars, goVars, cacheVars>>

DownloadRequest ==
    /\ out = NoOut
    /\ \E method \in Methods, urlPath \in Requests :
        \E h \in {DownloadHandler(disk, method, urlPath)} :
            /\ disk' = h.disk
            /\ out' = [op |-> "download", method |-> method, url |-> urlPath,
                       err |-> "nil", json |-> "none", events |-> h.events,
                       files |-> <<>>,
                       removed |-> {}, at |-> envSteps, again |-> FALSE,
                       before |-> {}]
            /\ UNCHANGED <<envSteps, tree, pureVars, loopVars, goVars, cacheVars>>

Init == DiskInit /\ RegInit /\ PureIdle /\ CacheIdle /\ LoopIdle

\* The listing handler over a disk the environment changes.
Next ==
    \/ EnvCreate /\ UNCHANGED <<regVars, pureVars, loopVars, goVars, cacheVars>>
    \/ EnvRemove /\ UNCHANGED <<regVars, pureVars, loopVars, goVars, cacheVars>>
    \/ ListRequest

Spec == Init /\ [][Next]_vars

\* The client has read the response; the server takes the next request.
ResponseRead ==
    /\ out.op = "download"
    /\ out' = NoOut
    /\ UNCHANGED <<diskVars, tree, pureVars, loopVars, goVars, cacheVars>>

\* The download handler, one request at a time, over a disk the environment
\* changes between requests.
NextDownload ==
    \/ out = NoOut /\ EnvCreateAny /\ UNCHANGED <<regVars, pureVars, loopVars, goVars, cacheVars>>
    \/ out = NoOut /\ EnvRemove /\ UNCHANGED <<regVars, pureVars, loopVars, goVars, cacheVars>>
    \/ DownloadRequest
    \/ ResponseRead

SpecDownload == Init /\ [][NextDownload]_vars

(***************************************************************************)
(* The monitor variant: monitors are made and tick over a disk the         *)
(* environment changes.                                                    *)
(***************************************************************************)
NewMonitorStep(path) ==
    NewMonitor(path) /\ UNCHANGED <<diskVars, meta, regVars, pureVars, loopVars, goVars>>

MonitorTickStep(path) ==
    MonitorTick(path) /\ UNCHANGED <<diskVars, meta, regVars, pureVars, loopVars, goVars>>

MakeMonitor == \E path \in MonitorPaths : NewMonitorStep(path)

Tick == \E path \in DOMAIN mon : MonitorTickStep(path)

NextCache ==
    \/ EnvCreateFile /\ UNCHANGED <<regVars, pureVars, loopVars, goVars, cache, mon, mout>>
    \/ EnvRemoveFile /\ UNCHANGED <<regVars, pureVars, loopVars, goVars, cache, mon, mout>>
    \/ EnvWrite /\ UNCHANGED <<regVars, pureVars, loopVars, goVars, cache, mon, mout>>
    \/ MakeMonitor
    \/ Tick

SpecCache == Init /\ [][NextCache]_vars

\* Every caller of Clean on one disk of directories and regular files: the
\* listing handler, NewMonitor and the monitor's tick.
TreeKinds == {"dir", "file", "unreadable"}

EnvCreateTree ==
    \E q \in RelPaths, k \in TreeKinds :
        /\ CreateAt(q, k)
        /\ meta' = [meta EXCEPT ![q] = IF k = "dir" THEN NoFileMeta ELSE NewFileMeta]

ListFiles == FileInfoHandler("GET") /\ UNCHANGED <<envSteps, pureVars, loopVars, goVars, cacheVars>>

NextClean ==
    \/ EnvCreateTree /\ UNCHANGED <<regVars, pureVars, loopVars, goVars, cache, mon, mout>>
    \/ ListFiles
    \/ MakeMonitor
    \/ Tick

SpecClean == Init /\ [][NextClean]_vars

(***************************************************************************)
(* The pure path functions on their own                                    *)
(***************************************************************************)
InitPath == DiskInit /\ RegInit /\ PureInit /\ CacheIdle /\ LoopIdle

NextPath == CheckDotDot /\ UNCHANGED <<diskVars, regVars, cacheVars, loopVars, goVars>>

SpecPath == InitPath /\ [][NextPath]_vars

(***************************************************************************)
(* newWebObject on its own: a root of up to MaxDepth elements registered   *)
(* at a web prefix, and a file up to MaxDepth elements below the root.     *)
(***************************************************************************)
WebNames == {<<"d">>, <<"a">>}
WebPrefixes == {<<"/", "s", "/">>, <<"/">>}

RECURSIVE WebPathsUpTo(_)
WebPathsUpTo(n) ==
    IF n = 0 THEN {<<>>}
    ELSE LET shorter == WebPathsUpTo(n - 1)
         IN  shorter \cup {Append(q, nm) : q \in {x \in shorter : Len(x) = n - 1},
                                            nm \in WebNames}

WebInputs ==
    [webPath : WebPrefixes, diskPath : WebPathsUpTo(MaxDepth) \ {<<>>},
     rel : WebPathsUpTo(MaxDepth) \ {<<>>}]

InitWeb ==
    /\ DiskInit /\ RegInit /\ CacheIdle /\ LoopIdle
    /\ arg \in WebInputs
    /\ ret = Unset

\* The node of the file at rel below the root, as Scan makes it.
FileBelow(diskPath, rel) == NewFSObj(diskPath \o rel, "file", FALSE).fso

MakeWebObject ==
    /\ ~ret.set
    /\ ret' = [set |-> TRUE,
               val |-> newWebObject(arg.webPath, arg.diskPath,
                                    FileBelow(arg.diskPath, arg.rel))]
    /\ UNCHANGED arg

\* The disk path a download handler made for (diskPath, servePath) stats for
\* a request path.
DownloadHandler_diskPath(diskPath, servePath, urlPath) ==
    path_Join(PathString(diskPath), TrimPrefix(urlPath, servePath))

\* A client requests the web path of the listed object from the download
\* handler that main made for the same configuration entry.
ServeListedPath ==
    /\ ret.set
    /\ "resolved" \notin DOMAIN ret
    /\ ret' = [set |-> TRUE, val |-> ret.val,
               resolved |-> DownloadHandler_diskPath(arg.diskPath, arg.webPath,
                                                     ret.val.WebPath)]
    /\ UNCHANGED arg

NextWeb ==
    (MakeWebObject \/ ServeListedPath)
        /\ UNCHANGED <<diskVars, regVars, cacheVars, loopVars, goVars>>

SpecWeb == InitWeb /\ [][NextWeb]_vars

(***************************************************************************)
(* The listing over two registered roots, one below the other, on a disk   *)
(* whose entries have the names of ListNames.  In this specification tree  *)
(* is the Registry's map pathFSO, from serve path to root node.            *)
(***************************************************************************)
OtherServePath == <<"/", "t", "/">>     \* serve_path "/t/" of the second root
ListRoots == (ServePath :> DiskRoot) @@ (OtherServePath :> Append(DiskRoot, <<"a">>))
ListOrders == {<<ServePath, OtherServePath>>, <<OtherServePath, ServePath>>}
ListKinds == {"dir", "file", "fifo"}

\* The disk main finds: both roots exist.
ListDisk == [q \in ListPaths |-> IF q \in {<<>>, <<<<"a">>>>} THEN "dir" ELSE None]

InitFiles ==
    /\ disk = ListDisk /\ envSteps = 0
    /\ tree = [p \in DOMAIN ListRoots |-> ObjFromPath(ListDisk, ListRoots[p], TRUE).fso]
    /\ out = NoOut
    /\ PureIdle /\ CacheIdle /\ LoopIdle

EnvCreateListed == \E q \in ListPaths, k \in ListKinds : CreateAt(q, k)

\* Registry.GetAllFiles, the map ranged over in either order.
listAllFiles ==
    \E order \in ListOrders :
        \E l \in {Registry_GetAllFilesOf(disk, tree, order, 1, <<>>)} :
            /\ disk' = l.disk
            /\ tree' = l.pathFSO
            /\ out' = [op |-> "list", method |-> "GET", url |-> <<>>, err |-> l.err,
                       json |-> "none", events |-> <<>>, files |-> l.files,
                       removed |-> {}, at |-> envSteps, again |-> FALSE, before |-> {}]

NextFiles ==
    \/ EnvCreateListed /\ UNCHANGED <<regVars, pureVars, loopVars, goVars, cacheVars>>
    \/ listAllFiles /\ UNCHANGED <<envSteps, pureVars, loopVars, goVars, cacheVars>>

SpecFiles == InitFiles /\ [][NextFiles]_vars

(***************************************************************************)
(* Registration.  main registers the file paths of its configuration in    *)
(* order; Register is also called directly, with any prefix.  tree is the  *)
(* Registry's map pathFSO; ret tells what the last call was.               *)
(***************************************************************************)
ServePrefixes == {<<>>, <<"/">>, <<"/", "s">>, <<"/", "s", "/">>}
FilePaths == [ServePath : ServePrefixes, DiskPath : MonitorPaths]

RECURSIVE ConfigsUpTo(_)
ConfigsUpTo(n) ==
    IF n = 0 THEN {<<>>}
    ELSE LET shorter == ConfigsUpTo(n - 1)
         IN  shorter \cup {Append(c, fp) : c \in {x \in shorter : Len(x) = n - 1},
                                           fp \in FilePaths}

\* Registry.Register: [err, pathFSO]
Registry_Register(d, pathFSO, servePath, diskPath) ==
    With(ObjFromPath(d, diskPath, TRUE), LAMBDA o :
        IF o.err # "nil" THEN [err |-> o.err, pathFSO |-> pathFSO]
        ELSE [err |-> "nil",
              pathFSO |-> [k \in DOMAIN pathFSO \cup {servePath} |->
                              IF k = servePath THEN o.fso ELSE pathFSO[k]]])

\* A plausible slip: the separator appended whether or not it is there.
mainServePathAppend(servePath) == servePath \o <<"/">>

\* main: servePath is p.ServePath, with "/" appended if it does not end so.
mainServePath(servePath) ==
    IF ~HasSuffix(servePath, <<"/">>) THEN servePath \o <<"/">> ELSE servePath

InitRegistry ==
    /\ DiskInit
    /\ tree = <<>> /\ out = NoOut
    /\ arg \in ConfigsUpTo(MaxRoots)
    /\ ret = [set |-> FALSE, val |-> [by |-> "none", key |-> <<>>, err |-> "nil", n |-> 0]]
    /\ CacheIdle /\ LoopIdle

\* One turn of main's loop over c.FilePaths; a failed Register is fatal.
mainRegister ==
    /\ arg # <<>>
    /\ \E servePath \in {mainServePath(Head(arg).ServePath)} :
       \E r \in {Registry_Register(disk, tree, servePath, Head(arg).DiskPath)} :
           /\ tree' = r.pathFSO
           /\ arg' = IF r.err # "nil" THEN <<>> ELSE Tail(arg)
           /\ ret' = [set |-> TRUE,
                      val |-> [by |-> "main", key |-> servePath, err |-> r.err,
                               n |-> ret.val.n + 1]]

\* Register called with a prefix as it comes.
RegisterCall ==
    \E servePath \in ServePrefixes, diskPath \in MonitorPaths :
        \E r \in {Registry_Register(disk, tree, servePath, diskPath)} :
            /\ tree' = r.pathFSO
            /\ ret' = [set |-> TRUE,
                       val |-> [by |-> "Register", key |-> servePath, err |-> r.err,
                                n |-> ret.val.n]]
            /\ UNCHANGED arg

NextRegistry ==
    \/ mainRegister /\ UNCHANGED <<diskVars, out, cacheVars, loopVars, goVars>>
    \/ RegisterCall /\ UNCHANGED <<diskVars, out, cacheVars, loopVars, goVars>>

SpecRegistry == InitRegistry /\ [][NextRegistry]_vars

(***************************************************************************)
(* The goroutines of two monitors on disjoint roots.  NewMonitor has       *)
(* returned both: their tickers run, their done channels are unbuffered    *)
(* and empty.  For each monitor one goroutine may run Monitor and one      *)
(* caller may call StopMonitor, more than once.  The disk is the           *)
(* environment here: whether a Clean fails, and how many cache entries a   *)
(* Clean deletes or an UpdateCache writes, is chosen at each pass.  Each   *)
(* DeleteCacheFile and UpdateCacheFile takes the process-wide lock.        *)
(*   loop[m].at     "new" (Monitor not called), "select", "Clean",         *)
(*                  "cleaned", "UpdateCache", "exited"                     *)
(*   loop[m].ops    cache entries the running call has yet to touch        *)
(*   loop[m].inCall TRUE inside DeleteCacheFile or UpdateCacheFile         *)
(*   loop[m].err    what the last Clean returned ("none" before the first) *)
(*   stopper[m].at  "idle", "send" (blocked on fm.done <- true), "Stop",   *)
(*                  "Info", "returned"                                     *)
(***************************************************************************)
LoopRoots == {Append(DiskRoot, NameOrder[1]), Append(DiskRoot, NameOrder[2])}

InitLoops ==
    /\ DiskInit /\ RegInit /\ PureIdle /\ CacheIdle
    /\ loop = [m \in LoopRoots |-> [at |-> "new", ops |-> 0, inCall |-> FALSE, err |-> "none"]]
    /\ stopper = [m \in LoopRoots |-> [at |-> "idle", calls |-> 0]]
    /\ ticker = [m \in LoopRoots |-> [C |-> 0, stopped |-> FALSE]]
    /\ lock = Free

InitMonitor == InitLoops /\ GoIdle

\* go fm.Monitor()
StartMonitor(m) ==
    /\ loop[m].at = "new"
    /\ loop' = [loop EXCEPT ![m].at = "select"]
    /\ UNCHANGED <<stopper, ticker, lock>>

\* The runtime's timer sends on ticker.C, whose buffer holds one tick; a
\* tick that finds the buffer full is dropped.
TickerFire(m) ==
    /\ ~ticker[m].stopped
    /\ ticker[m].C = 0
    /\ ticker' = [ticker EXCEPT ![m].C = 1]
    /\ UNCHANGED <<loop, stopper, lock>>

\* case <-fm.ticker.C: Clean begins.
ReceiveTick(m) ==
    /\ loop[m].at = "select"
    /\ ticker[m].C = 1
    /\ ticker' = [ticker EXCEPT ![m].C = 0]
    /\ \E n \in 0..MaxOps : loop' = [loop EXCEPT ![m].at = "Clean", ![m].ops = n]
    /\ UNCHANGED <<stopper, lock>>

\* A plausible slip: a break, which leaves the select and not the loop.
ReceiveDoneBreak(m) ==
    /\ loop[m].at = "select"
    /\ stopper[m].at = "send"
    /\ stopper' = [stopper EXCEPT ![m].at = "Stop"]
    /\ UNCHANGED <<loop, ticker, lock>>

\* case <-fm.done: return, the handshake with the sender in StopMonitor.
ReceiveDone(m) ==
    /\ loop[m].at = "select"
    /\ stopper[m].at = "send"
    /\ loop' = [loop EXCEPT ![m].at = "exited"]
    /\ stopper' = [stopper EXCEPT ![m].at = "Stop"]
    /\ UNCHANGED <<ticker, lock>>

\* Clean calls DeleteCacheFile, or UpdateCache calls UpdateCacheFile: the
\* goroutine comes to lock.Lock().
CacheFileCall(m) ==
    /\ loop[m].at \in {"Clean", "UpdateCache"}
    /\ loop[m].ops > 0
    /\ ~loop[m].inCall
    /\ loop' = [loop EXCEPT ![m].inCall = TRUE]
    /\ UNCHANGED <<stopper, ticker, lock>>

\* lock.Lock() returns.
LockCache(m) ==
    /\ loop[m].inCall
    /\ lock = Free
    /\ lock' = m
    /\ UNCHANGED <<loop, stopper, ticker>>

\* The write to the map, lock.Unlock(), and the return.
UnlockCache(m) ==
    /\ lock = m
    /\ lock' = Free
    /\ loop' = [loop EXCEPT ![m].ops = @ - 1, ![m].inCall = FALSE]
    /\ UNCHANGED <<stopper, ticker>>

\* A plausible slip: a failed Clean ends the loop.
CleanReturnFatal(m) ==
    /\ loop[m].at = "Clean"
    /\ ~loop[m].inCall
    /\ \E err \in {"nil", "error"} :
           /\ err = "nil" => loop[m].ops = 0
           /\ loop' = [loop EXCEPT ![m].at = IF err = "nil" THEN "cleaned" ELSE "exited",
                                   ![m].ops = 0, ![m].err = err]
    /\ UNCHANGED <<stopper, ticker, lock>>

\* err := fm.fsObject.Clean() returns: with no error once its deletions are
\* done, with an error at any point.
CleanReturn(m) ==
    /\ loop[m].at = "Clean"
    /\ ~loop[m].inCall
    /\ \E err \in {"nil", "error"} :
           /\ err = "nil" => loop[m].ops = 0
           /\ loop' = [loop EXCEPT ![m].at = "cleaned", ![m].ops = 0, ![m].err = err]
    /\ UNCHANGED <<stopper, ticker, lock>>

\* if err != nil { log }; fm.fsObject.UpdateCache() begins.
UpdateCacheCall(m) ==
    /\ loop[m].at = "cleaned"
    /\ \E n \in 0..MaxOps : loop' = [loop EXCEPT ![m].at = "UpdateCache", ![m].ops = n]
    /\ UNCHANGED <<stopper, ticker, lock>>

\* UpdateCache returns: back to the select.
UpdateCacheReturn(m) ==
    /\ loop[m].at = "UpdateCache"
    /\ loop[m].ops = 0
    /\ loop' = [loop EXCEPT ![m].at = "select"]
    /\ UNCHANGED <<stopper, ticker, lock>>

\* A plausible slip: done made with a buffer of one, so that the send does
\* not wait for a receiver.
StopMonitorCallBuffered(m) ==
    /\ stopper[m].at \in {"idle", "returned"}
    /\ stopper[m].calls < MaxStops
    /\ stopper' = [stopper EXCEPT ![m].at = "Stop", ![m].calls = @ + 1]
    /\ UNCHANGED <<loop, ticker, lock>>

\* A call of StopMonitor reaches fm.done <- true.
StopMonitorCall(m) ==
    /\ stopper[m].at \in {"idle", "returned"}
    /\ stopper[m].calls < MaxStops
    /\ stopper' = [stopper EXCEPT ![m].at = "send", ![m].calls = @ + 1]
    /\ UNCHANGED <<loop, ticker, lock>>

\* A plausible slip: one ticker shared by all monitors is stopped.
StopTickerOfAll(m) ==
    /\ stopper[m].at = "Stop"
    /\ ticker' = [r \in LoopRoots |-> [ticker[r] EXCEPT !.stopped = TRUE]]
    /\ stopper' = [stopper EXCEPT ![m].at = "Info"]
    /\ UNCHANGED <<loop, lock>>

\* fm.ticker.Stop()
StopTicker(m) ==
    /\ stopper[m].at = "Stop"
    /\ ticker' = [ticker EXCEPT ![m].stopped = TRUE]
    /\ stopper' = [stopper EXCEPT ![m].at = "Info"]
    /\ UNCHANGED <<loop, lock>>

\* fm.logger.Info("filemonitor stopped"), and StopMonitor returns.
StopMonitorReturn(m) ==
    /\ stopper[m].at = "Info"
    /\ stopper' = [stopper EXCEPT ![m].at = "returned"]
    /\ UNCHANGED <<loop, ticker, lock>>

NextMonitor ==
    /\ \/ \E m \in LoopRoots : StartMonitor(m)
       \/ \E m \in LoopRoots : TickerFire(m)
       \/ \E m \in LoopRoots : ReceiveTick(m)
       \/ \E m \in LoopRoots : ReceiveDone(m)
       \/ \E m \in LoopRoots : CacheFileCall(m)
       \/ \E m \in LoopRoots : LockCache(m)
       \/ \E m \in LoopRoots : UnlockCache(m)
       \/ \E m \in LoopRoots : CleanReturn(m)
       \/ \E m \in LoopRoots : UpdateCacheCall(m)
       \/ \E m \in LoopRoots : UpdateCacheReturn(m)
       \/ \E m \in LoopRoots : StopMonitorCall(m)
       \/ \E m \in LoopRoots : StopTicker(m)
       \/ \E m \in LoopRoots : StopMonitorReturn(m)
    /\ UNCHANGED <<diskVars, regVars, pureVars, cacheVars, goVars>>

\* Every goroutine that can take a step takes one in the end, and the timer
\* keeps firing.  The select picks at random among its ready cases, so the
\* done case is taken if it is ready again and again; sync.Mutex hands the
\* lock to a goroutine that keeps waiting for it (starvation mode).
FairMonitor ==
    \A m \in LoopRoots :
        /\ WF_loopVars(TickerFire(m))
        /\ WF_loopVars(ReceiveTick(m))
        /\ SF_loopVars(ReceiveDone(m))
        /\ WF_loopVars(CacheFileCall(m))
        /\ SF_loopVars(LockCache(m))
        /\ WF_loopVars(UnlockCache(m))
        /\ WF_loopVars(CleanReturn(m))
        /\ WF_loopVars(UpdateCacheCall(m))
        /\ WF_loopVars(UpdateCacheReturn(m))
        /\ WF_loopVars(StopTicker(m))
        /\ WF_loopVars(StopMonitorReturn(m))

SpecMonitor == InitMonitor /\ [][NextMonitor]_vars /\ FairMonitor

(***************************************************************************)
(* The cache's readers beside the monitor goroutines: a request goroutine  *)
(* of the listing handler, which reads the whole map, and a caller of      *)
(* NewMonitor, whose FSObjFromPath looks one path up.                      *)
(***************************************************************************)
CacheReaders == {"serveCachedFiles", "FSObjFromPath"}

\* The function of filecache.go each of them calls.
CacheRead(h) ==
    IF h = "serveCachedFiles" THEN "GetAllFilesFromCache" ELSE "GetFromCache"

CacheReads == {CacheRead(h) : h \in CacheReaders}

InitReaders ==
    /\ InitLoops
    /\ handler = [h \in CacheReaders |-> [at |-> "idle"]]
    /\ heap = <<>>

\* The goroutine comes to v, ok := cache[path], or to the range over the
\* map: neither function takes the lock.
CacheReadCall(h) ==
    /\ handler[h].at = "idle"
    /\ handler' = [handler EXCEPT ![h].at = CacheRead(h)]

\* The read is over and the function returns.
CacheReadReturn(h) ==
    /\ handler[h].at \in CacheReads
    /\ handler' = [handler EXCEPT ![h].at = "idle"]

\* The runtime finds the map being written during the read and ends the
\* process with "concurrent map read and map write" (or "concurrent map
\* iteration and map write"); it need not find it.
CacheReadThrow(h) ==
    /\ handler[h].at \in CacheReads
    /\ lock # Free
    /\ handler' = [handler EXCEPT ![h].at = "fatal"]

Crashed == \E h \in CacheReaders : handler[h].at = "fatal"

NextReaders ==
    /\ ~Crashed
    /\ \/ NextMonitor
       \/ /\ \/ \E h \in CacheReaders : CacheReadCall(h)
             \/ \E h \in CacheReaders : CacheReadReturn(h)
             \/ \E h \in CacheReaders : CacheReadThrow(h)
          /\ UNCHANGED <<diskVars, regVars, pureVars, cacheVars, loopVars, heap>>

SpecReaders == InitReaders /\ [][NextReaders]_vars

(***************************************************************************)
(* Scan and Clean called on the registered root by several goroutines at   *)
(* once (listing requests, a monitor's tick), a step at a time.  Every     *)
(* FilesystemObject has its own mutex; the objects live in heap, a root    *)
(* at RootId and the children the Scans make after it, and a child list    *)
(* holds the places of its objects in heap.                                *)
(***************************************************************************)
Goroutines == {<<i>> : i \in 1..MaxGo}
RootId == 1

\* The trees the goroutines find: /d/a is a directory, empty or with one
\* entry.
LockDisks ==
    {[q \in RelPaths |->
         CASE q = <<>> -> "dir"
           [] q = <<NameOrder[1]>> -> "dir"
           [] q = <<NameOrder[1], NameOrder[1]>> -> inner
           [] OTHER -> None] :
     inner \in {None, "dir", "file", "unreadable"}}

\* An object as ObjFromPath returns it, its mutex unlocked.
Object(fso) == [Mutex |-> Free] @@ fso

\* A call of fn on the object at fso, not yet begun: where it is, whether it
\* holds the object's mutex, the entries (Scan) or children (Clean) it
\* ranges over, its place among them, newChildren, and the error it returns.
Frame(fn, fso) ==
    [fn |-> fn, fso |-> fso, at |-> "begin", locked |-> FALSE, files |-> <<>>, i |-> 1,
     newChildren |-> <<>>, err |-> "nil"]

NotCalled == [at |-> "idle", stack |-> <<>>, err |-> "nil"]

InitLocks ==
    /\ disk \in LockDisks /\ envSteps = 0
    /\ RegInit /\ PureIdle /\ CacheIdle
    /\ loop = <<>> /\ stopper = <<>> /\ ticker = <<>> /\ lock = Free
    /\ handler = [g \in Goroutines |-> NotCalled]
    /\ heap = <<Object(ObjFromPath(disk, DiskRoot, TRUE).fso)>>

Top(g) == handler[g].stack[Len(handler[g].stack)]
In(g, fn, at) ==
    /\ handler[g].stack # <<>>
    /\ Top(g).fn = fn
    /\ Top(g).at = at
SetTop(g, f) == [handler EXCEPT ![g].stack[Len(handler[g].stack)] = f]
Push(g, f, callee) ==
    [handler EXCEPT ![g].stack = Append([@ EXCEPT ![Len(@)] = f], callee)]

\* The goroutine calls Scan or Clean on the root.
GoCall(g) ==
    /\ handler[g].at = "idle"
    /\ \E fn \in {"Scan", "Clean"} :
           handler' = [handler EXCEPT ![g] = [at |-> "called", stack |-> <<Frame(fn, RootId)>>,
                                             err |-> "nil"]]
    /\ UNCHANGED <<heap, diskVars, regVars, pureVars, cacheVars, loopVars>>

\* The head of Scan and of Clean: the IsDir test, and in Clean the Scan of
\* a root, made before the lock is taken.
GoBegin(g) ==
    /\ handler[g].stack # <<>>
    /\ Top(g).at = "begin"
    /\ LET f == Top(g)
       IN  handler' =
               IF ~heap[f.fso].IsDir
               THEN SetTop(g, [f EXCEPT !.at = "return", !.err = ErrIsNotDir])
               ELSE IF f.fn = "Clean" /\ heap[f.fso].Root
               THEN Push(g, [f EXCEPT !.at = "Scan"], Frame("Scan", f.fso))
               ELSE SetTop(g, [f EXCEPT !.at = "Lock"])
    /\ UNCHANGED <<heap, diskVars, regVars, pureVars, cacheVars, loopVars>>

\* fso.Lock() returns and defer fso.Unlock() is noted; Clean begins its
\* range over fso.Children.
GoLock(g) ==
    /\ handler[g].stack # <<>>
    /\ Top(g).at = "Lock"
    /\ heap[Top(g).fso].Mutex = Free
    /\ LET f == Top(g)
       IN  /\ heap' = [heap EXCEPT ![f.fso].Mutex = g]
           /\ handler' =
                  IF f.fn = "Scan"
                  THEN SetTop(g, [f EXCEPT !.at = "ReadDir", !.locked = TRUE])
                  ELSE SetTop(g, [f EXCEPT !.at = "range", !.locked = TRUE,
                                           !.files = heap[f.fso].Children])
    /\ UNCHANGED <<diskVars, regVars, pureVars, cacheVars, loopVars>>

\* fso.Children = []*FilesystemObject{}, and ioutil.ReadDir(fso.Path)
GoReadDir(g) ==
    /\ In(g, "Scan", "ReadDir")
    /\ LET f == Top(g)
           rd == ReadDir(disk, heap[f.fso].Path)
       IN  /\ heap' = [heap EXCEPT ![f.fso].Children = <<>>]
           /\ handler' =
                  IF rd.err # "nil"
                  THEN SetTop(g, [f EXCEPT !.at = "return", !.err = rd.err])
                  ELSE SetTop(g, [f EXCEPT !.at = "range", !.files = rd.files])
    /\ UNCHANGED <<diskVars, regVars, pureVars, cacheVars, loopVars>>

\* One turn of Scan's loop: the entry is skipped, ends the Scan, or is
\* appended to fso.Children and, a directory, scanned.
GoScanEntry(g) ==
    /\ In(g, "Scan", "range")
    /\ LET f == Top(g)
           next == [f EXCEPT !.i = @ + 1]
       IN  IF f.i > Len(f.files)
           THEN /\ handler' = SetTop(g, [f EXCEPT !.at = "return"])
                /\ UNCHANGED heap
           ELSE \E r \in {ObjFromPath(disk, Append(heap[f.fso].Path, f.files[f.i]), FALSE)} :
                    IF r.err # "nil"
                    THEN /\ handler' = IF os_IsPermission(r.err) THEN SetTop(g, next)
                                       ELSE SetTop(g, [f EXCEPT !.at = "return",
                                                                !.err = r.err])
                         /\ UNCHANGED heap
                    ELSE /\ heap' = Append([heap EXCEPT ![f.fso].Children =
                                                Append(@, Len(heap) + 1)],
                                           Object(r.fso))
                         /\ handler' = IF r.fso.IsDir
                                       THEN Push(g, [f EXCEPT !.at = "f.Scan"],
                                                 Frame("Scan", Len(heap) + 1))
                                       ELSE SetTop(g, next)
    /\ UNCHANGED <<diskVars, regVars, pureVars, cacheVars, loopVars>>

\* One turn of Clean's loop: a file is kept, a directory cleaned.
GoCleanEntry(g) ==
    /\ In(g, "Clean", "range")
    /\ LET f == Top(g)
       IN  handler' =
               IF f.i > Len(f.files)
               THEN SetTop(g, [f EXCEPT !.at = "finish"])
               ELSE IF ~heap[f.files[f.i]].IsDir
               THEN SetTop(g, [f EXCEPT !.i = @ + 1,
                                        !.newChildren = Append(@, f.files[f.i])])
               ELSE Push(g, [f EXCEPT !.at = "f.Clean"], Frame("Clean", f.files[f.i]))
    /\ UNCHANGED <<heap, diskVars, regVars, pureVars, cacheVars, loopVars>>

\* fso.Children = newChildren, and what follows it: a root is kept, a
\* directory with children is not empty, an empty one is deleted.
GoCleanFinish(g) ==
    /\ In(g, "Clean", "finish")
    /\ LET f == Top(g)
       IN  /\ heap' = [heap EXCEPT ![f.fso].Children = f.newChildren]
           /\ IF heap[f.fso].Root
              THEN /\ handler' = SetTop(g, [f EXCEPT !.at = "return"])
                   /\ UNCHANGED disk
              ELSE IF Len(f.newChildren) > 0
              THEN /\ handler' = SetTop(g, [f EXCEPT !.at = "return",
                                                     !.err = ErrDirNotEmpty])
                   /\ UNCHANGED disk
              ELSE \E r \in {Delete(disk, heap[f.fso])} :
                       /\ handler' = SetTop(g, [f EXCEPT !.at = "return", !.err = r.err])
                       /\ disk' = r.disk
    /\ UNCHANGED <<envSteps, regVars, pureVars, cacheVars, loopVars>>

\* The caller's frame once its callee has returned err.
Resumed(c, callee, err) ==
    CASE c.at = "Scan" ->
             IF err # "nil" THEN [c EXCEPT !.at = "return", !.err = err]
             ELSE [c EXCEPT !.at = "Lock"]
      [] c.at = "f.Scan" ->
             IF err # "nil" THEN [c EXCEPT !.at = "return", !.err = err]
             ELSE [c EXCEPT !.at = "range", !.i = @ + 1]
      [] c.at = "f.Clean" ->
             IF err = "nil" THEN [c EXCEPT !.at = "range", !.i = @ + 1]
             ELSE IF err = ErrDirNotEmpty
             THEN [c EXCEPT !.at = "range", !.i = @ + 1,
                            !.newChildren = Append(@, callee.fso)]
             ELSE [c EXCEPT !.at = "return", !.err = err]

\* The stack and the result of g once its innermost call has returned.
Returned(g) ==
    LET st == handler[g].stack
        f == Top(g)
    IN  IF Len(st) = 1
        THEN [at |-> "returned", stack |-> <<>>, err |-> f.err]
        ELSE [handler[g] EXCEPT
                  !.stack = Append(SubSeq(st, 1, Len(st) - 2),
                                   Resumed(st[Len(st) - 1], f, f.err))]

\* A plausible slip: Unlock written before the last return and not
\* deferred, so that a return with an error leaves the mutex locked.
GoReturnUnlockAtEnd(g) ==
    /\ handler[g].stack # <<>>
    /\ Top(g).at = "return"
    /\ heap' = IF Top(g).locked /\ Top(g).err = "nil"
               THEN [heap EXCEPT ![Top(g).fso].Mutex = Free] ELSE heap
    /\ handler' = [handler EXCEPT ![g] = Returned(g)]
    /\ UNCHANGED <<diskVars, regVars, pureVars, cacheVars, loopVars>>

\* The call returns: the deferred Unlock runs if Lock was reached, and the
\* caller goes on with the error.
GoReturn(g) ==
    /\ handler[g].stack # <<>>
    /\ Top(g).at = "return"
    /\ heap' = IF Top(g).locked THEN [heap EXCEPT ![Top(g).fso].Mutex = Free] ELSE heap
    /\ handler' = [handler EXCEPT ![g] = Returned(g)]
    /\ UNCHANGED <<diskVars, regVars, pureVars, cacheVars, loopVars>>

NextLocks ==
    \/ \E g \in Goroutines : GoCall(g)
    \/ \E g \in Goroutines : GoBegin(g)
    \/ \E g \in Goroutines : GoLock(g)
    \/ \E g \in Goroutines : GoReadDir(g)
    \/ \E g \in Goroutines : GoScanEntry(g)
    \/ \E g \in Goroutines : GoCleanEntry(g)
    \/ \E g \in Goroutines : GoCleanFinish(g)
    \/ \E g \in Goroutines : GoReturn(g)

\* A goroutine that can take a step takes one in the end, and sync.Mutex
\* hands the lock to a goroutine that keeps waiting for it (starvation
\* mode).
FairLocks ==
    \A g \in Goroutines :
        /\ WF_vars(GoBegin(g))
        /\ SF_vars(GoLock(g))
        /\ WF_vars(GoReadDir(g))
        /\ WF_vars(GoScanEntry(g))
        /\ WF_vars(GoCleanEntry(g))
        /\ WF_vars(GoCleanFinish(g))
        /\ WF_vars(GoReturn(g))

SpecLocks == InitLocks /\ [][NextLocks]_vars /\ FairLocks

(***************************************************************************)
(* Properties of Clean (specification Spec)                                *)
(***************************************************************************)
\* The nodes below fso in the in-memory tree.
RECURSIVE NodesOf(_)
NodesOf(fso) ==
    UNION {{fso.Children[i]} \cup NodesOf(fso.Children[i]) : i \in 1..Len(fso.Children)}

\* A GET /fileinfo step: Registry.GetAllFiles runs Clean on the root.
ListGET == FileInfoHandler("GET") /\ UNCHANGED <<envSteps, pureVars, loopVars, goVars, cacheVars>>

CleanSucceeded == out.op = "list" /\ out.method = "GET" /\ out.err = "nil"

RegularKinds == {"file", "unreadable", "immutable"}
Below(q) == {r \in RelPaths : Len(r) > Len(q) /\ SubSeq(r, 1, Len(q)) = q}

\* C1 as stated: after a successful Clean on the root, every directory node
\* left in the tree, the root aside, has a descendant that is a regular file.
C1_EveryDirHasRegularFile ==
    CleanSucceeded =>
        \A n \in NodesOf(tree) :
            n.IsDir => \E m \in NodesOf(n) : ~m.IsDir /\ m.Regular

\* C1 as amended: after a successful Clean on the root, every directory node
\* left in the tree, the root aside, has a descendant that is not a directory
\* (a regular file, or a non-directory of another mode).
C1_EveryDirHasNonDir ==
    CleanSucceeded =>
        \A n \in NodesOf(tree) :
            n.IsDir => \E m \in NodesOf(n) : ~m.IsDir

\* A successful Clean that removed a directory and kept another one.
C1_Witness ==
    /\ CleanSucceeded
    /\ out.removed # {}
    /\ \E n \in NodesOf(tree) : n.IsDir

\* C2: Clean on the root never takes the root's own directory off the disk;
\* when the scan succeeded and the pass left nothing below the root, it
\* returns success with an empty child list.
C2_RootNeverRemoved ==
    [][ListGET =>
        /\ DiskRoot \notin out'.removed
        /\ disk[<<>>] = "dir" => disk'[<<>>] = "dir"
        /\ (Scan(disk, tree).err = "nil" /\ ~HasEntries(disk', <<>>)) =>
               (out'.err = "nil" /\ tree'.Children = <<>>)]_vars

\* Clean removed every directory below the root, which is still on disk.
C2_Witness ==
    /\ CleanSucceeded
    /\ out.removed # {}
    /\ tree.Children = <<>>
    /\ disk[<<>>] = "dir"

\* C3: a directory a Clean pass removes held, when the pass scanned it, no
\* regular file, neither itself nor below it; this also when Scan skipped
\* entries and when the pass fails later.
C3_RemovedOnlyIfNoRegularFile ==
    [][ListGET =>
        \A q \in RelPaths :
            (disk[q] # None /\ disk'[q] = None) =>
                /\ disk[q] = "dir"
                /\ \A r \in Below(q) : disk[r] \notin RegularKinds]_vars

\* A pass that removed a directory and then failed.
C3_Witness ==
    /\ out.op = "list"
    /\ out.err \notin {"nil", ErrDirNotEmpty}
    /\ out.removed # {}

HasDotDotSegment(p) ==
    \E i \in 1..(Len(p) - 1) :
        /\ p[i] = "." /\ p[i + 1] = "."
        /\ i = 1 \/ p[i - 1] \in isSlashRune
        /\ i + 1 = Len(p) \/ p[i + 2] \in isSlashRune

\* C8: containsDotDot is true of a path exactly when one of its elements,
\* delimited by "/" or "\", is ".."; ".." inside a longer element does not
\* count.
C8_DotDotIffSegment ==
    ret.set => (ret.val <=> HasDotDotSegment(arg))

\* A path that holds ".." only inside a longer element, and is let through.
C8_Witness ==
    /\ ret.set
    /\ ~ret.val
    /\ Contains(arg, DotDot)

RECURSIVE Responses(_)
Responses(events) ==
    IF events = <<>> THEN <<>>
    ELSE (IF Head(events)[1] = "resp" THEN <<Head(events)[2]>> ELSE <<>>)
         \o Responses(Tail(events))

Did(events, what) == \E i \in 1..Len(events) : events[i][1] = what

\* A step of the download handler on request (method, urlPath).
Downloaded == out.op = "none" /\ out'.op = "download"
ResolvedPath(urlPath) == path_Join(PathString(DiskRoot), TrimPrefix(urlPath, ServePath))

\* C7: a request whose path has a ".." element gets a 400 and nothing else:
\* no stat, no file served, nothing unlinked.
C7_TraversalRejectedBeforeStat ==
    (out.op = "download" /\ HasDotDotSegment(out.url)) =>
        out.events = <<Resp(400)>>

\* C9: when the resolved path is a directory or not a regular file, the
\* request gets a 400 whatever its method, nothing is served, and nothing is
\* removed from disk.  (Stated for request paths without a ".." element.)
C9_NonFileRejected ==
    [][(Downloaded /\ ~HasDotDotSegment(out'.url)) =>
        LET st == Stat(disk, ResolvedPath(out'.url))
        IN  (st.err = "nil" /\ st.kind \in {"dir", "fifo"}) =>
                /\ Responses(out'.events) = <<400>>
                /\ ~Did(out'.events, "ServeFile")
                /\ ~Did(out'.events, "unlink")
                /\ disk' = disk]_vars

StatusOf(errno) ==
    CASE errno = "ENOENT" -> 404
      [] errno = "EACCES" -> 403
      [] OTHER -> 500

\* C10: when the stat of the resolved path fails, the request ends with one
\* error response, 404 for NotExist, 403 for PermissionDenied and 500 for any
\* other error, and nothing is served or unlinked after it.  (Stated for
\* request paths without a ".." element.)
C10_StatErrorOneResponse ==
    [][(Downloaded /\ ~HasDotDotSegment(out'.url)) =>
        LET st == Stat(disk, ResolvedPath(out'.url))
        IN  st.err # "nil" =>
                /\ out'.events = << <<"stat", ResolvedPath(out'.url)>>, Resp(StatusOf(st.err)) >>
                /\ disk' = disk]_vars

(***************************************************************************)
(* Properties of the checksum cache (specification SpecCache)              *)
(***************************************************************************)
\* The cache holds an entry for path with the size and time the disk has now.
UpToDate(path) ==
    /\ path \in DOMAIN cache
    /\ cache[path].Size = meta[Rel(path)].size
    /\ cache[path].ModTime = meta[Rel(path)].mtime

\* C5: making a node from a path that can be statted takes the cached node,
\* without computing a digest, exactly when the cache has an entry for the
\* path whose size and modification time are those just statted; otherwise a
\* regular file's digest is computed anew.
C5_ReuseIffUnchanged ==
    [][\A path \in MonitorPaths :
        (NewMonitorStep(path) /\ Stat(disk, path).err = "nil") =>
            /\ mout'.reused <=> UpToDate(path)
            /\ mout'.reused => path \notin mout'.summed
            /\ (~mout'.reused /\ Stat(disk, path).kind \in RegularKinds) =>
                   path \in mout'.summed]_vars

\* A node was taken from the cache.
C5_Witness ==
    /\ mout.op = "NewMonitor"
    /\ mout.reused
    /\ mout.summed = {}

\* C6: on a tick, Scan takes the cached node of every regular file whose
\* size and modification time are unchanged, and does not compute its digest
\* again.
C6_ScanReusesCache ==
    [][\A root \in DOMAIN mon :
        MonitorTickStep(root) =>
            \A path \in DOMAIN cache :
                (HasPrefix(path, root) /\ KindRel(disk, Rel(path)) = "file" /\ UpToDate(path)) =>
                    path \notin mout'.summed]_vars

(***************************************************************************)
(* Properties of the handlers' method dispatch (specifications             *)
(* SpecDownload and Spec)                                                  *)
(***************************************************************************)
OtherMethods == Methods \ {"GET", "HEAD", "DELETE"}

\* C11 as stated: a method other than GET, HEAD or DELETE gets a 405, and
\* nothing else, for any request path, and the disk is unchanged.
C11_OtherMethod405AnyPath ==
    [][(Downloaded /\ out'.method \in OtherMethods) =>
        /\ Responses(out'.events) = <<405>>
        /\ disk' = disk]_vars

\* C11: a method other than GET, HEAD or DELETE changes nothing on disk for
\* any request path, and gets a 405 and nothing else when the path has no
\* ".." element and resolves to an existing readable regular file.
C11_OtherMethod405OnFile ==
    [][(Downloaded /\ out'.method \in OtherMethods) =>
        /\ disk' = disk
        /\ (/\ ~HasDotDotSegment(out'.url)
            /\ Stat(disk, ResolvedPath(out'.url)).err = "nil"
            /\ Stat(disk, ResolvedPath(out'.url)).kind = "file") =>
               out'.events = << <<"stat", ResolvedPath(out'.url)>>, Resp(405) >>]_vars

\* A POST for an existing regular file was answered with 405.
C11_Witness ==
    /\ out.op = "download"
    /\ out.method \in OtherMethods
    /\ out.url = ServePath \o NameOrder[1]
    /\ KindRel(disk, <<NameOrder[1]>>) = "file"
    /\ Responses(out.events) = <<405>>
\* A DELETE request was handled whose path resolves to an existing readable
\* regular file.
DeletedFile ==
    /\ Downloaded
    /\ out'.method = "DELETE"
    /\ Stat(disk, ResolvedPath(out'.url)).err = "nil"
    /\ Stat(disk, ResolvedPath(out'.url)).kind \in {"file", "immutable"}

\* What a DELETE of the file at path is to do: unlink it and answer nothing,
\* or, the unlink refused, answer 500 and leave the disk as it is.
UnlinkedOr500(path) ==
    \/ /\ KindRel(disk, Rel(path)) = "file"
       /\ out'.events = << <<"stat", path>>, <<"unlink", path>> >>
       /\ disk' = [disk EXCEPT ![Rel(path)] = None]
    \/ /\ KindRel(disk, Rel(path)) = "immutable"
       /\ out'.events = << <<"stat", path>>, Resp(500) >>
       /\ disk' = disk

\* C12: a DELETE on a path that resolves to an existing regular file unlinks
\* that file, changes no other disk entry and answers with no body; when the
\* unlink fails it answers 500 and the disk is unchanged.
C12_DeleteUnlinksExactly ==
    [][DeletedFile => UnlinkedOr500(ResolvedPath(out'.url))]_vars

\* The same for request paths without a ".." element.
C12_DeleteUnlinksPlainPath ==
    [][(DeletedFile /\ ~HasDotDotSegment(out'.url)) =>
          UnlinkedOr500(ResolvedPath(out'.url))]_vars
\* A /fileinfo request with method m was handled.
Listed(m) == FileInfoHandler(m) /\ UNCHANGED <<envSteps, pureVars, loopVars, goVars, cacheVars>>

\* C13: the listing handler answers a request that is not a GET with 405 and
\* neither scans nor cleans for it; a GET gets one response, 500 when Clean
\* of the root or the marshalling to JSON failed and 200 with the listing of
\* the cleaned tree otherwise.
C13_ListingResponses ==
    [][\A m \in Methods :
        Listed(m) =>
            IF m # "GET"
            THEN /\ out'.events = <<Resp(405)>>
                 /\ tree' = tree
                 /\ disk' = disk
            ELSE /\ out'.err = Clean(disk, tree).err
                 /\ out'.events =
                        <<Resp(IF out'.err # "nil" \/ out'.json = "error" THEN 500 ELSE 200)>>
                 /\ out'.events = <<Resp(200)>> =>
                        out'.files = WebObjects(GetAllFiles(tree'), 1)]_vars

\* A GET whose Clean failed was answered 500.
C13_Witness ==
    /\ out.op = "list"
    /\ out.method = "GET"
    /\ out.err # "nil"
    /\ out.events = <<Resp(500)>>
(***************************************************************************)
(* Properties of the registry's listing (specifications SpecWeb and Spec)  *)
(***************************************************************************)
\* The path rel as a string without its leading "/": "x/y".
RelString(rel) == Tail(PathString(rel))

\* C14: the web path of a file below a registered root is the web prefix
\* followed by the file's path relative to the root, whatever the root and
\* the relative path.
C14_WebPathIsPrefixPlusRelative ==
    ret.set => ret.val.WebPath = arg.webPath \o RelString(arg.rel)

\* C29: the download handler bound to the same (web prefix, disk path) pair
\* resolves the web path of every listed file back to that file's disk path.
C29_ListedWebPathResolvesToItsFile ==
    (ret.set /\ "resolved" \in DOMAIN ret) => ret.resolved = ret.val.Path

(***************************************************************************)
(* Properties of the listing over all roots (specification SpecFiles)      *)
(***************************************************************************)
Last(q) == q[Len(q)]
Range(f) == {f[i] : i \in 1..Len(f)}

\* The node is a regular file whose name neither starts with a dot nor ends
\* with a tilde.
ListedNode(n) ==
    /\ ~n.IsDir /\ n.Regular
    /\ Last(n.Path)[1] # "."
    /\ Last(Last(n.Path)) # "~"

\* What the listing owes for the root registered at p: one WebObject for
\* each such node of the root's tree.
OwedFor(p) == {newWebObject(p, tree[p].Path, n) : n \in {m \in NodesOf(tree[p]) : ListedNode(m)}}

\* C15: a listing that succeeds returns, over all registered roots together,
\* exactly the nodes of the freshly cleaned trees that are regular files
\* whose base name does not start with a dot and whose path does not end
\* with "~": none is missing and no other node is included.
C15_ListingIsExactlyTheListedFiles ==
    (out.op = "list" /\ out.err = "nil")
        => Range(out.files) = UNION {OwedFor(p) : p \in DOMAIN tree}

\* A listing succeeded that returned a file from below a directory whose
\* name starts with a dot, while a regular dot-file or backup file on the
\* disk was left out.
C15_Witness ==
    /\ out.op = "list" /\ out.err = "nil" /\ out.at = envSteps
    /\ \E i \in 1..Len(out.files) :
           /\ Len(out.files[i].Path) = 3
           /\ out.files[i].Path[2] = <<".", "a">>
    /\ \E q \in ListPaths \ {<<>>} :
           /\ disk[q] = "file"
           /\ Last(q) \in {<<".", "a">>, <<"a", "~">>}
           /\ \A i \in 1..Len(out.files) : out.files[i].Path # DiskRoot \o q

(***************************************************************************)
(* Properties of monitor construction (specification SpecCache)            *)
(***************************************************************************)
RegularNodes(fso) == {n \in NodesOf(fso) : ~n.IsDir /\ n.Regular}

\* Clean on the node NewMonitor made for path returned no error.
InitialCleanSucceeded(path) ==
    \E o \in {FSObjFromPath(disk, meta, cache, path, TRUE)} :
        /\ o.err = "nil"
        /\ CleanH(disk, meta, cache, o.fso).err = "nil"

\* C19: when NewMonitor returns a monitor, the initial Clean has succeeded
\* and every regular file of the monitor's tree has its entry in the cache;
\* when the root's stat or the initial Clean fails, no monitor is returned.
C19_MonitorOnlyAfterCleanAndCached ==
    [][\A path \in MonitorPaths :
        NewMonitorStep(path) =>
            IF mout'.err = "nil"
            THEN /\ InitialCleanSucceeded(path)
                 /\ path \in DOMAIN mon'
                 /\ \A n \in RegularNodes(mon'[path]) :
                        n.Path \in DOMAIN cache' /\ cache'[n.Path] = n
            ELSE /\ ~InitialCleanSucceeded(path)
                 /\ mon' = mon]_vars

\* NewMonitor returned a monitor whose tree has a regular file in a
\* directory below the root.
C19_Witness ==
    /\ mout.op = "NewMonitor" /\ mout.err = "nil"
    /\ mout.path \in DOMAIN mon
    /\ \E n \in RegularNodes(mon[mout.path]) : Len(n.Path) = Len(mout.path) + 2

\* C22: after a tick whose Clean succeeded, the cache holds an entry for a
\* path under the monitor's root exactly when that path is a regular file of
\* the tree the tick produced.
C22_CacheIsTheTreeAfterTick ==
    [][\A path \in MonitorPaths :
        (path \in DOMAIN mon /\ MonitorTickStep(path) /\ mout'.err = "nil") =>
            \A q \in {DiskRoot \o x : x \in RelPaths} :
                HasPrefix(q, path) =>
                q \in DOMAIN cache'
                    <=> \E n \in RegularNodes(mon'[path]) : n.Path = q]_vars


(***************************************************************************)
(* Properties of the monitor goroutines (specification SpecMonitor)        *)
(***************************************************************************)
Running(m) == loop[m].at \in {"select", "Clean", "cleaned", "UpdateCache"}
NoLoop(m) == loop[m].at \in {"new", "exited"}
BeforeHandshake(m) == stopper[m].at \in {"idle", "send", "returned"}

\* The first StopMonitor call on m has returned.
FirstStopReturned(m) ==
    \/ stopper[m].calls = 1 /\ stopper[m].at = "returned"
    \/ stopper[m].calls > 1

\* C16: a first StopMonitor call made while the loop runs returns in the
\* end; the caller gets past the send only in a step in which the loop,
\* waiting in its select with no pass in flight, exits; and once the call
\* has returned the loop has exited and starts no Clean.
C16_StopReturnsAfterLoopExit ==
    /\ \A m \in LoopRoots :
           (stopper[m].at = "send" /\ stopper[m].calls = 1 /\ Running(m))
               ~> (stopper[m].at = "returned")
    /\ [][\A m \in LoopRoots :
             /\ (stopper[m].at = "send" /\ stopper'[m].at # "send")
                    => (loop[m].at = "select" /\ loop'[m].at = "exited")
             /\ FirstStopReturned(m) => loop'[m].at # "Clean"]_vars
    /\ [](\A m \in LoopRoots : FirstStopReturned(m) => loop[m].at = "exited")

\* The one StopMonitor call has returned, after a pass with a failed Clean,
\* and a tick that came too late lies in the ticker's channel.
C16_Witness ==
    \E m \in LoopRoots :
        /\ stopper[m].calls = 1 /\ stopper[m].at = "returned"
        /\ loop[m].at = "exited" /\ loop[m].err = "error"
        /\ ticker[m].C = 1

\* C17 as stated: a StopMonitor call that finds the loop not started, or
\* exited, stays blocked on the send for ever.
C17_StopWithoutLoopNeverReturns ==
    \A m \in LoopRoots :
        []((stopper[m].at = "send" /\ NoLoop(m)) => [](stopper[m].at = "send"))

\* C17, amended: while the loop is not running no step takes the caller
\* past the send, and a call that finds the loop exited stays blocked for
\* ever.  (A call that finds the loop not yet started returns if Monitor is
\* started afterwards.)
C17_StopBlocksWhileNoLoop ==
    /\ [][\A m \in LoopRoots :
             (NoLoop(m) /\ BeforeHandshake(m)) => BeforeHandshake(m)']_vars
    /\ \A m \in LoopRoots :
           []((stopper[m].at = "send" /\ loop[m].at = "exited")
                 => [](stopper[m].at = "send"))

\* A second StopMonitor call is blocked on the send, the loop having exited
\* at the first.
C17_Witness ==
    \E m \in LoopRoots :
        /\ stopper[m].at = "send" /\ stopper[m].calls = 2
        /\ loop[m].at = "exited"

\* C18: the loop exits only in the handshake with a StopMonitor call; after
\* a failed Clean it comes back to its select, and a tick that is there
\* then starts Clean again unless the loop is stopped first.
C18_CleanFailureNotFatal ==
    /\ [][\A m \in LoopRoots :
             (loop[m].at # "exited" /\ loop'[m].at = "exited")
                 => (loop[m].at = "select" /\ stopper[m].at = "send")]_vars
    /\ \A m \in LoopRoots :
           /\ (loop[m].at = "cleaned" /\ loop[m].err = "error") ~> (loop[m].at = "select")
           /\ (loop[m].at = "select" /\ loop[m].err = "error" /\ ticker[m].C = 1)
                  ~> (loop[m].at \in {"Clean", "exited"})

\* Clean is running again in the pass after one whose Clean failed.
C18_Witness ==
    \E m \in LoopRoots : loop[m].at = "Clean" /\ loop[m].err = "error"

\* The goroutine is in lock.Lock().
WaitsForLock(m) == loop[m].inCall /\ lock # m

\* C20 as stated: no step of one monitor's pass has to wait for the other
\* monitor.
C20_NoStepWaitsForOther ==
    \A m \in LoopRoots : ~(WaitsForLock(m) /\ lock # Free)

\* C20, amended: a pass of one monitor waits for the other only at the
\* cache lock, and gets the lock in the end; no step of one monitor's
\* StopMonitor call changes the other monitor's loop, ticker or caller; and
\* a loop in its select goes on to a Clean, or exits, whatever the other
\* monitor does.
C20_MonitorsShareOnlyTheLock ==
    /\ [](\A m \in LoopRoots :
             /\ (loop[m].at = "Clean" /\ ~loop[m].inCall) => ENABLED CleanReturn(m)
             /\ (Running(m) /\ loop[m].ops > 0 /\ ~loop[m].inCall)
                    => ENABLED CacheFileCall(m)
             /\ loop[m].at = "cleaned" => ENABLED UpdateCacheCall(m)
             /\ (loop[m].at = "UpdateCache" /\ loop[m].ops = 0)
                    => ENABLED UpdateCacheReturn(m)
             /\ lock = m => ENABLED UnlockCache(m))
    /\ [][\A m \in LoopRoots :
             stopper'[m] # stopper[m] =>
                 \A o \in LoopRoots \ {m} :
                     /\ loop'[o] = loop[o]
                     /\ ticker'[o] = ticker[o]
                     /\ stopper'[o] = stopper[o]]_vars
    /\ \A m \in LoopRoots :
           /\ WaitsForLock(m) ~> (lock = m)
           /\ (loop[m].at = "select") ~> (loop[m].at \in {"Clean", "exited"})

\* One monitor's StopMonitor has returned while the other monitor, in a
\* pass, holds the cache lock.
C20_Witness ==
    \E m \in LoopRoots, o \in LoopRoots :
        /\ m # o
        /\ stopper[m].at = "returned"
        /\ Running(o) /\ lock = o


(***************************************************************************)
(* Properties of Scan's and Clean's errors (specification Spec)            *)
(***************************************************************************)
\* The entries whose node cannot be made for want of permission, and those
\* whose node cannot be made for another reason.
SkippedKinds == {"denied", "unreadable"}
AbortingKinds == {"dangling"}

Entries(kinds) == {q \in RelPaths \ {<<>>} : disk[q] \in kinds}

\* C23: in the Scan a listing makes of the root directory, the entries that
\* fail with a permission error are left out and all others are scanned, and
\* Scan succeeds, unless some entry fails with another error, which Scan
\* then returns, and with it Clean and the listing.
C23_ScanSkipsPermissionErrorsOnly ==
    [][(ListGET /\ disk[<<>>] = "dir") =>
          \E s \in {Scan(disk, tree)} :
              /\ s.err = "nil" <=> Entries(AbortingKinds) = {}
              /\ s.err = "nil" =>
                     {n.Path : n \in NodesOf(s.fso)}
                         = {DiskRoot \o q : q \in Entries(Kinds \ SkippedKinds)}
              /\ s.err # "nil" => (s.err = "ENOENT" /\ out'.err = s.err)]_vars

\* A listing succeeded on a disk where an entry that may not be read comes
\* before a regular file of the same directory, and the file is listed.
C23_Witness ==
    /\ CleanSucceeded /\ out.at = envSteps
    /\ disk[<<NameOrder[1]>>] \in SkippedKinds
    /\ disk[<<NameOrder[2]>>] = "file"
    /\ \E i \in 1..Len(out.files) : out.files[i].Path = Append(DiskRoot, NameOrder[2])


\* The directories below the root that have entries, all of them entries
\* Scan skips.
OnlySkipped ==
    {q \in Entries({"dir"}) :
        /\ HasEntries(disk, q)
        /\ \A nm \in Names : KindRel(disk, Append(q, nm)) \in SkippedKinds \cup {None}}

\* C24: when a directory below the root holds nothing but entries Scan
\* skips, and Scan meets no other error, the listing's Clean on the root
\* succeeds and the directory stays on disk.
C24_SkippedEntriesNotFatal ==
    [][(ListGET /\ disk[<<>>] = "dir" /\ Entries(AbortingKinds) = {} /\ OnlySkipped # {})
          => (out'.err = "nil" /\ \A q \in OnlySkipped : disk'[q] = "dir")]_vars


(***************************************************************************)
(* Properties of Clean's callers (specification SpecClean)                 *)
(***************************************************************************)
\* C25: no Clean called by the listing, by NewMonitor or by a tick returns
\* ErrDirNotEmpty.
C25_DirNotEmptyNeverSurfaces ==
    /\ out.err # ErrDirNotEmpty
    /\ mout.err # ErrDirNotEmpty

\* A listing's Clean and a tick's Clean have both succeeded and kept a
\* directory below the root, for which Clean returned ErrDirNotEmpty.
C25_Witness ==
    /\ CleanSucceeded
    /\ \E i \in 1..Len(tree.Children) :
           tree.Children[i].IsDir /\ tree.Children[i].Children # <<>>
    /\ mout.op = "tick" /\ mout.err = "nil"
    /\ \E i \in 1..Len(mon[mout.path].Children) :
           mon[mout.path].Children[i].IsDir /\ mon[mout.path].Children[i].Children # <<>>


(***************************************************************************)
(* Properties of registration (specification SpecRegistry)                 *)
(***************************************************************************)
\* C26 as stated: after any Register calls, every key of the Registry ends
\* with "/".
C26_EveryKeyEndsWithSeparator ==
    \A k \in DOMAIN tree : HasSuffix(k, <<"/">>)

\* C26, amended: the key under which main registers a file path ends with
\* "/", and is the same for the prefix p and the prefix p/; a registration
\* that succeeds makes or replaces that one entry and no other.
C26_MainRegistersWithSeparator ==
    [][(mainRegister /\ UNCHANGED <<diskVars, out, cacheVars, loopVars, goVars>>) =>
          /\ HasSuffix(ret'.val.key, <<"/">>)
          /\ ret'.val.key = TrimRightSlash(Head(arg).ServePath) \o <<"/">>
                 \/ (Head(arg).ServePath \in {<<>>, <<"/">>} /\ ret'.val.key = <<"/">>)
          /\ ret'.val.err = "nil" => DOMAIN tree' = DOMAIN tree \cup {ret'.val.key}
          /\ ret'.val.err # "nil" => tree' = tree]_vars

\* main has registered two file paths, one with the prefix /s and one with
\* /s/, and the Registry has the one entry /s/.
C26_Witness ==
    /\ ret.val.by = "main" /\ ret.val.n = 2 /\ ret.val.err = "nil"
    /\ arg = <<>>
    /\ DOMAIN tree = {<<"/", "s", "/">>}


(***************************************************************************)
(* Properties of the listing over nested roots (specification SpecFiles)   *)
(***************************************************************************)
ListStep == listAllFiles /\ UNCHANGED <<envSteps, pureVars, loopVars, goVars, cacheVars>>

RootOnDisk(d, p) == KindRel(d, Rel(ListRoots[p])) = "dir"

\* C27: no listing removes the directory of a registered root from the disk,
\* one root being inside the other.
C27_ListingKeepsEveryRoot ==
    [][ListStep => \A p \in DOMAIN ListRoots : RootOnDisk(disk, p) => RootOnDisk(disk', p)]_vars


(***************************************************************************)
(* Properties of the tree Clean leaves (specification Spec)                *)
(***************************************************************************)
\* C28: when the listing's Clean has returned, with or without an error, no
\* node in a child list of the tree is a directory that this Clean removed
\* from the disk.
C28_NoRemovedNodeInTree ==
    [][ListGET => \A n \in NodesOf(tree') : n.Path \notin out'.removed]_vars


(***************************************************************************)
(* Properties of the cache's readers (specification SpecReaders)           *)
(***************************************************************************)
\* C21: no read of the cache map, of one key or of all values, is under way
\* while another goroutine is inside an insert, merge or delete.
C21_NoReadOverlapsWrite ==
    \A h \in CacheReaders : handler[h].at \in CacheReads => lock = Free


(***************************************************************************)
(* Properties of the directory locks (specification SpecLocks)             *)
(***************************************************************************)
\* The objects whose mutex g holds.
Holds(g) == {n \in DOMAIN heap : heap[n].Mutex = g}

ProperPrefix(p, q) == Len(p) < Len(q) /\ SubSeq(q, 1, Len(p)) = p

\* C30: goroutines that call Clean and Scan on the same root at once never
\* deadlock.  Every call returns in the end; a child list is written only
\* by the goroutine that holds its object's mutex; a goroutine that takes a
\* mutex holds its parent's already, and none but those of its ancestors;
\* and a mutex is held only by a goroutine inside the Scan or Clean that
\* rebuilds that object's child list.
C30_CleanAndScanNeverDeadlock ==
    /\ \A g \in Goroutines : (handler[g].at = "called") ~> (handler[g].at = "returned")
    /\ [][\A n \in DOMAIN heap :
             /\ heap'[n].Children # heap[n].Children =>
                    \E g \in Goroutines : handler'[g] # handler[g] /\ heap[n].Mutex = g
             /\ (heap[n].Mutex = Free /\ heap'[n].Mutex # Free) =>
                    /\ \A m \in Holds(heap'[n].Mutex) :
                           ProperPrefix(heap[m].Path, heap[n].Path)
                    /\ n # RootId =>
                           \E m \in Holds(heap'[n].Mutex) :
                               heap[m].Path = Parent(heap[n].Path)]_vars
    /\ [](\A n \in DOMAIN heap :
             heap[n].Mutex # Free =>
                 \E k \in DOMAIN handler[heap[n].Mutex].stack :
                     /\ handler[heap[n].Mutex].stack[k].fso = n
                     /\ handler[heap[n].Mutex].stack[k].locked)

\* One goroutine holds the mutexes of the root and of a directory below it
\* while another waits in Lock for the root's, and a third call, if there
\* is one, has returned or not begun.
C30_Witness ==
    \E g, h \in Goroutines :
        /\ g # h
        /\ heap[RootId].Mutex = g
        /\ \E n \in DOMAIN heap : n # RootId /\ heap[n].Mutex = g
        /\ handler[h].stack # <<>>
        /\ Top(h).at = "Lock" /\ Top(h).fso = RootId


====
